---- MODULE Spec2Model ----
(***************************************************************************)
(* A model of the external_media_manager package: the directory scanner    *)
(* (ExternalMediaManager.scan_folder / get_file_info), the event           *)
(* subscription system (subscribe / unsubscribe / _emit_event) and the     *)
(* FileIndexer.                                                            *)
(*                                                                         *)
(* Strings (paths, names, extensions) are sequences of one-character       *)
(* strings, so that suffix extraction, lower-casing, dot-stripping and     *)
(* path containment are computed the way the code computes them.           *)
(***************************************************************************)
EXTENDS Integers, Sequences, FiniteSets, TLC

\* ------------------------------------------------------------------ bounds
MaxSubscribes == 2      \* subscribe() calls in one behaviour
MaxUnsubscribes == 1    \* unsubscribe() calls in one behaviour
MaxNotifications == 1   \* watcher notifications handled in one behaviour
MaxDepth == 4           \* call-stack depth at which a callback stops calling back in

\* ----------------------------------------------------------------- strings
NoneVal == "None"

UpperChars == <<"A","B","C","D","E","F","G","H","I","J","K","L","M",
                "N","O","P","Q","R","S","T","U","V","W","X","Y","Z">>
LowerChars == <<"a","b","c","d","e","f","g","h","i","j","k","l","m",
                "n","o","p","q","r","s","t","u","v","w","x","y","z">>

\* str.lower() on one character
LowerChar(c) ==
  IF \E i \in 1..Len(UpperChars) : UpperChars[i] = c
  THEN LowerChars[CHOOSE i \in 1..Len(UpperChars) : UpperChars[i] = c]
  ELSE c

\* str.lower()
Lower(s) == [i \in 1..Len(s) |-> LowerChar(s[i])]

\* str.lstrip(".")
RECURSIVE LStripDot(_)
LStripDot(s) ==
  IF s # <<>> /\ Head(s) = "." THEN LStripDot(Tail(s)) ELSE s

\* str.rfind(c), 1-based; 0 when c does not occur
RFind(s, c) ==
  IF \E i \in 1..Len(s) : s[i] = c
  THEN CHOOSE i \in 1..Len(s) : s[i] = c /\ \A j \in (i+1)..Len(s) : s[j] # c
  ELSE 0

\* PurePath.name: the final path component
Name(p) == SubSeq(p, RFind(p, "/") + 1, Len(p))

\* PurePath.suffix: the final component's last dot and what follows it, unless
\* the dot is the first or the last character of the name
Suffix(p) ==
  LET name == Name(p)
      i == RFind(name, ".")
  IN  IF 1 < i /\ i < Len(name) THEN SubSeq(name, i, Len(name)) ELSE <<>>

\* path.suffix.lower().lstrip(".")
ExtOf(p) == LStripDot(Lower(Suffix(p)))

\* {e.lower().lstrip(".") for e in exts}
ExtsLower(exts) == { LStripDot(Lower(e)) : e \in exts }

\* str.startswith
StartsWith(s, prefix) ==
  Len(prefix) =< Len(s) /\ SubSeq(s, 1, Len(prefix)) = prefix

\* PurePath.is_relative_to: component-wise containment of absolute paths
IsRelativeTo(p, folder) ==
  \/ p = folder
  \/ StartsWith(p, folder \o <<"/">>)

\* PurePath.parent
Parent(p) == SubSeq(p, 1, RFind(p, "/") - 1)

\* -------------------------------------------------------------- file system
\* The paths of the modelled file system.  Root is the directory scanned; RO
\* lies outside Root although its string starts with Root's.
Root == <<"/","r">>
PA   == <<"/","r","/","a",".","m","k","v">>
PB   == <<"/","r","/","b",".","t","x","t">>
PS   == <<"/","r","/","s">>
PC   == <<"/","r","/","s","/","c",".","M","P","4">>
PL   == <<"/","r","/","l",".","m","k","v">>
RO   == <<"/","r","o">>
PO   == <<"/","r","o","/","x",".","m","k","v">>
PN   == <<"/","n">>
Paths == {Root, PA, PB, PS, PC, PL, RO, PO, PN}

\* A node: kind is "file", "dir", "link" (a symbolic link to target) or "none"
\* (no such entry).  race says what happens to a regular file between the
\* scan's own checks and the probe of its metadata: "ok" (nothing), "gone"
\* (it no longer exists) or "notfile" (it is no longer a regular file).
Node(kind, size, target, race) ==
  [kind |-> kind, size |-> size, target |-> target, race |-> race]

LinkTargets == {PA, PC, PO, RO}
Races == {"ok", "gone", "notfile"}

\* The file system with the link PL pointing to linkTarget (<<>>: PL does not
\* exist) and the given fates of PA and PC.
MakeFS(linkTarget, raceA, raceC) ==
  [p \in Paths |->
     CASE p = Root -> Node("dir", 0, <<>>, "ok")
       [] p = PA   -> Node("file", 1, <<>>, raceA)
       [] p = PB   -> Node("file", 2, <<>>, "ok")
       [] p = PS   -> Node("dir", 0, <<>>, "ok")
       [] p = PC   -> Node("file", 4, <<>>, raceC)
       [] p = PL   -> IF linkTarget = <<>> THEN Node("none", 0, <<>>, "ok")
                      ELSE Node("link", 0, linkTarget, "ok")
       [] p = RO   -> Node("dir", 0, <<>>, "ok")
       [] p = PO   -> Node("file", 8, <<>>, "ok")
       [] OTHER    -> Node("none", 0, <<>>, "ok")]

FileSystems ==
  { MakeFS(lt, ra, rc) : lt \in LinkTargets \cup {<<>>}, ra \in Races,
                         rc \in {"ok", "gone"} }

\* Path.resolve(): symbolic links replaced by their targets (links here point
\* to entries that are not links themselves)
Resolve(f, p) ==
  IF p \in DOMAIN f /\ f[p].kind = "link" THEN f[p].target ELSE p

KindOf(f, p) == IF p \in DOMAIN f THEN f[p].kind ELSE "none"

\* Path.is_symlink()
IsSymlink(f, p) == KindOf(f, p) = "link"
\* Path.exists(), Path.is_file(), Path.is_dir(): all follow symbolic links
Exists(f, p) == KindOf(f, Resolve(f, p)) # "none"
IsFile(f, p) == KindOf(f, Resolve(f, p)) = "file"
IsDir(f, p)  == KindOf(f, Resolve(f, p)) = "dir"

\* The entries directly inside directory d
Children(f, d) ==
  { p \in DOMAIN f : f[p].kind # "none" /\ p # d /\ Parent(p) = d }

\* folder.glob("**/*"): the entries of d, then what the walk yields for each
\* sub-directory of d that is not a symbolic link.  The order inside one
\* directory is the operating system's and is not fixed: the walk is kept as
\* the list of the directories' entry sets, and the loop takes the entries of
\* the first set in any order.
RECURSIVE GlobRec(_, _, _)
GlobRec(f, d, fuel) ==
  LET subdirs == { x \in Children(f, d) : f[x].kind = "dir" }
      RECURSIVE Below(_)
      Below(ds) == IF ds = {} THEN <<>>
                   ELSE LET x == CHOOSE y \in ds : TRUE
                        IN  GlobRec(f, x, fuel - 1) \o Below(ds \ {x})
  IN  <<Children(f, d)>> \o (IF fuel = 0 THEN <<>> ELSE Below(subdirs))

\* A walk of the whole subtree whatever recursive is
GlobWholeTree(f, folder, recursive) == GlobRec(f, folder, 2)

\* pattern = "**/*" if recursive else "*"; folder.glob(pattern)
Glob(f, folder, recursive) ==
  IF recursive THEN GlobRec(f, folder, 2) ELSE <<Children(f, folder)>>

\* The walk with its exhausted directories dropped
RECURSIVE DropEmpty(_)
DropEmpty(todo) ==
  IF todo # <<>> /\ Head(todo) = {} THEN DropEmpty(Tail(todo)) ELSE todo

\* ------------------------------------------------------------ get_file_info
MediaFile(path, size) ==
  [path |-> path, name |-> Name(path), extension |-> ExtOf(path),
   size_bytes |-> size]

\* ExternalMediaManager.get_file_info: [exc |-> NoneVal, value |-> MediaFile]
\* or [exc |-> the exception raised].  The timestamps of the record are not
\* modelled.
GetFileInfo(f, path) ==
  LET file_path == Resolve(f, path)
      node == IF file_path \in DOMAIN f THEN f[file_path]
              ELSE Node("none", 0, <<>>, "ok")
  IN  IF node.kind = "none" \/ (node.kind = "file" /\ node.race = "gone")
      THEN [exc |-> "FileNotFoundError"]
      ELSE IF node.kind # "file" \/ node.race = "notfile"
      THEN [exc |-> "ValueError"]
      ELSE [exc |-> NoneVal, value |-> MediaFile(file_path, node.size)]

\* except (OSError, PermissionError)
IsOSError(exc) == exc \in {"FileNotFoundError", "PermissionError", "OSError"}

\* ------------------------------------------------------------------- events
EventTypes == {"FILE_DISCOVERED", "FILE_MODIFIED", "FILE_DELETED", "FILE_MOVED",
               "SCAN_COMPLETED"}

\* models.MediaEvent
MediaEvent(event_type, media_file, source_path, files_found) ==
  [event_type |-> event_type, media_file |-> media_file,
   source_path |-> source_path, files_found |-> files_found]

\* What a subscriber's callback does when it is invoked with an event:
\*   "ok"     returns normally
\*   "raise"  raises an Exception
\*   "sub"    calls subscribe([event kind], an "ok" callback) and returns
\*   "unsub"  calls unsubscribe(id) of some id issued so far and returns
\*   "scan"   calls scan_folder(PS) on the same manager and returns
Callbacks == {"ok", "raise", "sub", "unsub", "scan"}

Threads == {1, 2}

VARIABLES
  fs,             \* the file system
  subscriptions,  \* _subscriptions: insertion-ordered, <<[id, kinds, cb], ...>>
  lock,           \* _subscription_lock: the thread holding it, 0 when free
  nextId,         \* the next fresh subscription id (uuid4)
  stack,          \* per thread: its call stack, innermost frame last
  ret,            \* per thread: how its last top-level call ended
  calls,          \* how many top-level calls of each operation were made, and
                  \* ("scan_folder") how many calls of scan_folder in all
  published,      \* history: the events passed to _emit_event, in snapshot order
  delivered,      \* history: the callback invocations, in order
  indexers,       \* the FileIndexer objects: _index_path, _index, _loaded
  disk,           \* the file at the index path, and what a write to it meets
  iret,           \* how the last FileIndexer call ended
  trip,           \* history: how far an add_scan_result / save / load on a
                  \* fresh indexer sequence has come
  watcher,        \* the FileWatcher object: _observer, _watches, _lock
  engines,        \* the Observer objects the watcher has created
  wapp,           \* the application thread's position in a FileWatcher call
  whist           \* history: handlers made, unwatched and invoked

managerVars == <<fs, subscriptions, lock, nextId, stack, ret, calls, published,
                 delivered, indexers, disk, iret, trip>>

watcherVars == <<watcher, engines, wapp, whist>>

vars == <<fs, subscriptions, lock, nextId, stack, ret, calls, published,
          delivered, indexers, disk, iret, trip, watcher, engines, wapp, whist>>

Top(t) == stack[t][Len(stack[t])]
Busy(t) == stack[t] # <<>>
Idle(t) == stack[t] = <<>>

Push(t, frame) == [stack EXCEPT ![t] = Append(@, frame)]
Pop(t) == [stack EXCEPT ![t] = SubSeq(@, 1, Len(@) - 1)]
SetTop(t, frame) == [stack EXCEPT ![t][Len(stack[t])] = frame]
\* the stack of t with its top frame replaced by frame and another pushed
SetTopPush(t, frame, pushed) ==
  [stack EXCEPT ![t] = Append([@ EXCEPT ![Len(@)] = frame], pushed)]

\* A frame returns to its caller: at top level the outcome is kept in ret
\* (args: the arguments of a scan_folder call, for the history)
Outcome(op, kind, value) ==
  [op |-> op, kind |-> kind, value |-> value, args |-> NoneVal]
ScanOutcome(kind, value, args) ==
  [op |-> "scan", kind |-> kind, value |-> value, args |-> args]
NoOutcome == Outcome(NoneVal, NoneVal, NoneVal)

SubIds(subs) == { subs[i].id : i \in 1..Len(subs) }

\* --------------------------------------------------- returning and raising
\* An _emit_event without the try around the callback
EmitCatchesNothing(exc) == FALSE

\* except Exception (in _emit_event): does the handler catch exc?
EmitCatches(exc) == TRUE

\* Frames whose remaining code is "return" are left at once: a callback whose
\* call has returned, _emit_event after its last callback, scan_folder after
\* its SCAN_COMPLETED event, a watcher closure after its event; scan_folder
\* inside its try block goes back to the head of its loop.  out is the
\* outcome of the frame popped last; the result is the settled stack and, when
\* it is empty, the outcome of the top-level call.
RECURSIVE Settle(_, _)
Settle(stk, out) ==
  IF stk = <<>> THEN [stack |-> <<>>, outcome |-> out]
  ELSE
    LET top == stk[Len(stk)]
        rest == SubSeq(stk, 1, Len(stk) - 1)
    IN  CASE top.op = "callback" ->
               Settle(rest, Outcome("callback", "return", NoneVal))
          [] top.op = "emit" /\ top.pc = "invoke"
                             /\ top.i > Len(top.callbacks_to_invoke) ->
               Settle(rest, Outcome("emit", "return", NoneVal))
          [] top.op = "scan" /\ top.pc = "return" ->
               Settle(rest, ScanOutcome("return", top.result, top.args))
          [] top.op \in {"on_created", "on_modified", "on_deleted"}
                             /\ top.pc = "return" ->
               Settle(rest, Outcome(top.op, "return", NoneVal))
          [] top.op = "scan" /\ top.pc = "in_try" ->
               \* _emit_event returned inside the try block: the loop goes on
               [stack |-> Append(rest, [top EXCEPT !.pc = "loop"]),
                outcome |-> NoOutcome]
          [] OTHER -> [stack |-> stk, outcome |-> NoOutcome]

\* Exception exc propagates out of the frame above stk (a call of operation
\* op): frames are left until a handler catches it.
RECURSIVE Raise(_, _, _)
Raise(stk, exc, op) ==
  IF stk = <<>> THEN [stack |-> <<>>, outcome |-> Outcome(op, "raise", exc)]
  ELSE
    LET top == stk[Len(stk)]
        rest == SubSeq(stk, 1, Len(stk) - 1)
    IN  CASE top.op = "emit" /\ EmitCatches(exc) ->
               \* except Exception: logged, the loop goes on
               Settle(stk, NoOutcome)
          [] top.op = "scan" /\ top.pc = "in_try" /\ IsOSError(exc) ->
               \* except (OSError, PermissionError): recorded, the loop goes on
               [stack |-> Append(rest,
                  [top EXCEPT !.pc = "loop",
                              !.result.errors =
                                 Append(@, [path |-> top.file_path, exc |-> exc])]),
                outcome |-> NoOutcome]
          [] top.op \in {"on_created", "on_modified"} /\ IsOSError(exc) ->
               Settle(rest, Outcome(top.op, "return", NoneVal))
          [] top.op = "scan" ->
               LET r == Raise(rest, exc, "scan")
               IN  IF r.stack = <<>> /\ rest = <<>>
                   THEN [r EXCEPT !.outcome = ScanOutcome("raise", exc, top.args)]
                   ELSE r
          [] OTHER -> Raise(rest, exc, top.op)

\* Thread t goes on with the stack and outcome of r (from Settle or Raise)
Continue(t, r) ==
  /\ stack' = [stack EXCEPT ![t] = r.stack]
  /\ ret' = IF r.stack = <<>> THEN [ret EXCEPT ![t] = r.outcome] ELSE ret

\* ------------------------------------------------------ subscribe, unsubscribe
\* self._subscriptions[subscription_id] = (event_types, callback): a new key is
\* appended to the dict's order, an existing key keeps its place
DictSet(subs, id, event_types, callback) ==
  LET entry == [id |-> id, event_types |-> event_types, callback |-> callback]
  IN  IF id \in SubIds(subs)
      THEN [i \in 1..Len(subs) |-> IF subs[i].id = id THEN entry ELSE subs[i]]
      ELSE Append(subs, entry)

\* A deletion that also drops the entries stored after the deleted one
DictDelTruncating(subs, id) ==
  IF \E i \in 1..Len(subs) : subs[i].id = id
  THEN SubSeq(subs, 1, (CHOOSE i \in 1..Len(subs) : subs[i].id = id) - 1)
  ELSE subs

\* del self._subscriptions[subscription_id]
DictDel(subs, id) == SelectSeq(subs, LAMBDA e : e.id # id)

SubscribeFrame(event_types, callback, id) ==
  [op |-> "subscribe", pc |-> "lock", event_types |-> event_types,
   callback |-> callback, id |-> id]

UnsubscribeFrame(id) == [op |-> "unsubscribe", pc |-> "lock", id |-> id]

\* with self._subscription_lock: (in subscribe, unsubscribe and _emit_event)
\* threading.Lock is not reentrant: the thread waits until the lock is free.
AcquireLock(t) ==
  /\ Busy(t) /\ Top(t).pc = "lock"
  /\ lock = 0
  /\ lock' = t
  /\ stack' = SetTop(t, [Top(t) EXCEPT !.pc = "locked"])
  /\ UNCHANGED <<watcher, engines, wapp, whist, fs, indexers, disk, iret, trip, subscriptions, nextId, ret, calls, published, delivered>>

\* subscribe, inside the lock: the entry is stored, the lock released and the
\* id returned
SubscribeStore(t) ==
  /\ Busy(t) /\ Top(t).op = "subscribe" /\ Top(t).pc = "locked"
  /\ subscriptions' = DictSet(subscriptions, Top(t).id, Top(t).event_types,
                              Top(t).callback)
  /\ lock' = 0
  /\ Continue(t, Settle(Pop(t)[t], Outcome("subscribe", "return", Top(t).id)))
  /\ UNCHANGED <<watcher, engines, wapp, whist, fs, indexers, disk, iret, trip, nextId, calls, published, delivered>>

\* unsubscribe, inside the lock: the entry is deleted if present; True is
\* returned from inside the with block, False after it
UnsubscribeRemove(t) ==
  /\ Busy(t) /\ Top(t).op = "unsubscribe" /\ Top(t).pc = "locked"
  /\ LET found == Top(t).id \in SubIds(subscriptions)
     IN  /\ subscriptions' = IF found THEN DictDel(subscriptions, Top(t).id)
                             ELSE subscriptions
         /\ Continue(t, Settle(Pop(t)[t],
                               Outcome("unsubscribe", "return",
                                       [id |-> Top(t).id, result |-> found])))
  /\ lock' = 0
  /\ UNCHANGED <<watcher, engines, wapp, whist, fs, indexers, disk, iret, trip, nextId, calls, published, delivered>>

\* -------------------------------------------------------------- scan_folder
DEFAULT_EXTENSIONS ==
  { <<"m","k","v">>, <<"m","p","4">>, <<"a","v","i">>, <<"w","e","b","m">>,
    <<"m","o","v">>, <<"w","m","v">>, <<"f","l","v">> }

\* self._extensions of a manager constructed without an extensions argument
InstanceExtensions == DEFAULT_EXTENSIONS

\* models.ScanResult (scan_duration_seconds is not modelled; the sorted list
\* extensions_scanned is kept as the set it is built from)
ScanResult(root_path, extensions_scanned) ==
  [root_path |-> root_path, files |-> <<>>,
   extensions_scanned |-> extensions_scanned, total_size_bytes |-> 0,
   errors |-> <<>>]

\* An override that is taken whenever an argument is passed, empty or not
EffectiveExtensionsAsPassed(extensions) ==
  IF extensions = <<>> THEN InstanceExtensions ELSE extensions[1]

\* exts = extensions or self._extensions: None and the empty set are falsy.
\* The optional argument is <<>> for None and <<set>> for a set.
EffectiveExtensions(extensions) ==
  IF extensions = <<>> \/ extensions[1] = {} THEN InstanceExtensions
  ELSE extensions[1]

\* scan_folder up to the loop: the root is validated, the extension set and
\* the report are set up and the walk begins.
\* [exc |-> ...] or [exc |-> NoneVal, frame |-> ...]
\* id numbers the calls of scan_folder, for the history.
ScanArgs(path, recursive, extensions, follow_symlinks, id) ==
  [path |-> path, recursive |-> recursive, extensions |-> extensions,
   follow_symlinks |-> follow_symlinks, id |-> id]

\* A scan_folder that starts its walk without looking at the root
ScanEnterUnchecked(f, args) ==
  LET folder == Resolve(f, args.path)
      exts_lower == ExtsLower(EffectiveExtensions(args.extensions))
  IN  [exc |-> NoneVal,
       frame |-> [op |-> "scan", pc |-> "loop", args |-> args,
                  folder |-> folder,
                  exts_lower |-> exts_lower,
                  todo |-> DropEmpty(Glob(f, folder, args.recursive)),
                  file_path |-> <<>>,
                  result |-> ScanResult(folder, exts_lower)]]

ScanEnter(f, args) ==
  LET folder == Resolve(f, args.path)
      extensions == args.extensions
      recursive == args.recursive
      exts_lower == ExtsLower(EffectiveExtensions(extensions))
  IN  IF ~Exists(f, folder) THEN [exc |-> "FileNotFoundError"]
      ELSE IF ~IsDir(f, folder) THEN [exc |-> "NotADirectoryError"]
      ELSE [exc |-> NoneVal,
            frame |-> [op |-> "scan", pc |-> "loop", args |-> args,
                       folder |-> folder,
                       exts_lower |-> exts_lower,
                       todo |-> DropEmpty(Glob(f, folder, recursive)),
                       file_path |-> <<>>,
                       result |-> ScanResult(folder, exts_lower)]]

\* A loop body without the containment check of lines 101-108
PassesFiltersNoContainment(f, frame, file_path) ==
  /\ ~(IsSymlink(f, file_path) /\ ~frame.args.follow_symlinks)
  /\ IsFile(f, file_path)
  /\ ExtOf(file_path) \in frame.exts_lower

\* A loop body that compares the suffix as it is written, without lower()
PassesFiltersCaseSensitive(f, frame, file_path) ==
  /\ ~(IsSymlink(f, file_path) /\ ~frame.args.follow_symlinks)
  /\ IsFile(f, file_path)
  /\ IsRelativeTo(Resolve(f, file_path), frame.folder)
  /\ LStripDot(Suffix(file_path)) \in frame.exts_lower

\* The loop body's filters (lines 93-112): is file_path probed?
PassesFilters(f, frame, file_path) ==
  /\ ~(IsSymlink(f, file_path) /\ ~frame.args.follow_symlinks)
  /\ IsFile(f, file_path)
  /\ IsRelativeTo(Resolve(f, file_path), frame.folder)
  /\ ExtOf(file_path) \in frame.exts_lower

\* A step that adds to the running total and loses the record
AddToResultTotalOnly(result, media_file) ==
  [result EXCEPT !.total_size_bytes = @ + media_file.size_bytes]

\* An append that leaves the running total alone
AddToResultNoTotal(result, media_file) ==
  [result EXCEPT !.files = Append(@, media_file)]

\* result.files.append(media_file); result.total_size_bytes += size_bytes
AddToResult(result, media_file) ==
  [result EXCEPT !.files = Append(@, media_file),
                 !.total_size_bytes = @ + media_file.size_bytes]

\* (scan: the id of the scan_folder call emitting the event, 0 for a watcher
\* closure; ev: the event's place in published; both for the history)
EmitFrame(event, scan) ==
  [op |-> "emit", pc |-> "lock", event |-> event,
   callbacks_to_invoke |-> <<>>, i |-> 1, ev |-> 0, scan |-> scan]

\* One iteration of the for loop over glob's entries.  A probed file is
\* appended to the report and its FILE_DISCOVERED event emitted; an OSError of
\* the probe is recorded in errors; any other exception leaves scan_folder.
ScanStep(t) ==
  /\ Busy(t) /\ Top(t).op = "scan" /\ Top(t).pc = "loop" /\ Top(t).todo # <<>>
  /\ \E file_path \in Head(Top(t).todo) :
       LET frame == Top(t)
           next == [frame EXCEPT
                      !.todo = DropEmpty(<<Head(@) \ {file_path}>> \o Tail(@)),
                      !.file_path = file_path]
           info == GetFileInfo(fs, file_path)
       IN  IF ~PassesFilters(fs, frame, file_path)
           THEN /\ stack' = SetTop(t, next)
                /\ ret' = ret
           ELSE IF info.exc = NoneVal
           THEN /\ stack' = SetTopPush(t,
                     [next EXCEPT !.pc = "in_try",
                                  !.result = AddToResult(@, info.value)],
                     EmitFrame(MediaEvent("FILE_DISCOVERED", info.value,
                                          frame.folder, NoneVal),
                               frame.args.id))
                /\ ret' = ret
           ELSE Continue(t, Raise(SetTop(t, [next EXCEPT !.pc = "in_try"])[t],
                                  info.exc, "get_file_info"))
  /\ UNCHANGED <<watcher, engines, wapp, whist, fs, indexers, disk, iret, trip, subscriptions, lock, nextId, calls, published, delivered>>

\* A count of every file announced so far, whichever scan announced it
FilesFoundShared(frame) ==
  Cardinality({i \in DOMAIN published : published[i].event.event_type = "FILE_DISCOVERED"})

\* files_found=result.file_count: the length of the files list of the report
FilesFound(frame) == Len(frame.result.files)

\* After the loop: the SCAN_COMPLETED event is emitted, then the report returned
ScanComplete(t) ==
  /\ Busy(t) /\ Top(t).op = "scan" /\ Top(t).pc = "loop" /\ Top(t).todo = <<>>
  /\ stack' = SetTopPush(t, [Top(t) EXCEPT !.pc = "return"],
                 EmitFrame(MediaEvent("SCAN_COMPLETED", NoneVal, Top(t).folder,
                                      FilesFound(Top(t))),
                           Top(t).args.id))
  /\ UNCHANGED <<watcher, engines, wapp, whist, fs, indexers, disk, iret, trip, subscriptions, lock, nextId, ret, calls, published, delivered>>

\* ------------------------------------------------------------- _emit_event
\* A snapshot that collects no callback
SnapshotNobody(subs, event_type) == <<>>

\* A snapshot that takes every subscriber, whatever its kind list
SnapshotEverySubscriber(subs, event_type) ==
  [i \in 1..Len(subs) |-> [callback |-> subs[i].callback, id |-> subs[i].id]]

\* for event_types, callback in self._subscriptions.values():
\*     if event.event_type in event_types: callbacks_to_invoke.append(callback)
\* (the subscription id is kept beside each callback for the history only)
RECURSIVE Snapshot(_, _)
Snapshot(subs, event_type) ==
  IF subs = <<>> THEN <<>>
  ELSE (IF event_type \in Head(subs).event_types
        THEN <<[callback |-> Head(subs).callback, id |-> Head(subs).id]>>
        ELSE <<>>) \o Snapshot(Tail(subs), event_type)

\* An _emit_event that invokes the callbacks inside its with block
LockKeptForCallbacks(t) == t

\* The lock's holder once the with block of _emit_event is left: nobody
LockAfterSnapshot(t) == 0

\* A loop that does not call the callback of a subscription removed since the
\* snapshot (id 0, never issued, stands for the call not made)
CallbackAtUnlessRemoved(frame, subs) ==
  IF frame.callbacks_to_invoke[frame.i].id \in SubIds(subs)
  THEN frame.callbacks_to_invoke[frame.i]
  ELSE [callback |-> "ok", id |-> 0]

\* A loop that reads the live map at each iteration instead of the snapshot
CallbackAtLive(frame, subs) ==
  LET live == SelectSeq(subs, LAMBDA x : frame.event.event_type \in x.event_types)
  IN  IF frame.i =< Len(live)
      THEN [callback |-> live[frame.i].callback, id |-> live[frame.i].id]
      ELSE frame.callbacks_to_invoke[frame.i]

\* for callback in callbacks_to_invoke: the callback the loop is at (subs is
\* the subscription map at that moment, which the loop does not read)
CallbackAt(frame, subs) == frame.callbacks_to_invoke[frame.i]

\* _emit_event, inside the lock: the matching callbacks are collected and the
\* lock is released
EmitSnapshot(t) ==
  /\ Busy(t) /\ Top(t).op = "emit" /\ Top(t).pc = "locked"
  /\ published' = Append(published,
        [event |-> Top(t).event, subs |-> subscriptions, thread |-> t,
         scan |-> Top(t).scan])
  /\ lock' = LockAfterSnapshot(t)
  /\ Continue(t, Settle(SetTop(t,
        [Top(t) EXCEPT !.pc = "invoke",
                       !.callbacks_to_invoke =
                          Snapshot(subscriptions, Top(t).event.event_type),
                       !.ev = Len(published) + 1])[t], NoOutcome))
  /\ UNCHANGED <<watcher, engines, wapp, whist, fs, indexers, disk, iret, trip, subscriptions, nextId, calls, delivered>>

\* _emit_event, outside the lock: the next collected callback is invoked.
\* What the callback does is its own code; an exception it raises meets
\* the handler of _emit_event.
EmitInvoke(t) ==
  /\ Busy(t) /\ Top(t).op = "emit" /\ Top(t).pc = "invoke"
  /\ Top(t).i =< Len(Top(t).callbacks_to_invoke)
  /\ LET frame == Top(t)
         c == CallbackAt(frame, subscriptions)
         after == SetTop(t, [frame EXCEPT !.i = @ + 1])[t]
         cbframe == [op |-> "callback", pc |-> "return",
                     callback |-> c.callback]
     IN  /\ delivered' = Append(delivered,
               [ev |-> frame.ev, callback |-> c.callback, id |-> c.id,
                thread |-> t])
         /\ CASE c.callback = "ok" ->
                   /\ Continue(t, Settle(after, NoOutcome))
                   /\ nextId' = nextId
              [] c.callback = "raise" ->
                   /\ Continue(t, Raise(after, "Exception", "callback"))
                   /\ nextId' = nextId
              [] c.callback = "sub" ->
                   /\ stack' = [stack EXCEPT ![t] = after \o
                        <<cbframe,
                          SubscribeFrame({frame.event.event_type}, "ok", nextId)>>]
                   /\ nextId' = nextId + 1
                   /\ ret' = ret
              [] c.callback = "unsub" ->
                   /\ \E id \in SubIds(subscriptions) \cup {c.id} :
                        stack' = [stack EXCEPT ![t] = after \o
                                    <<cbframe, UnsubscribeFrame(id)>>]
                   /\ nextId' = nextId
                   /\ ret' = ret
              [] c.callback = "scan" ->
                   /\ nextId' = nextId
                   /\ IF Len(after) + 2 > MaxDepth
                      THEN Continue(t, Raise(after, "RecursionError", "callback"))
                      ELSE LET e == ScanEnter(fs, ScanArgs(PS, TRUE, <<>>, FALSE,
                                                 calls["scan_folder"] + 1))
                           IN  IF e.exc = NoneVal
                               THEN /\ stack' = [stack EXCEPT ![t] =
                                                   after \o <<cbframe, e.frame>>]
                                    /\ ret' = ret
                               ELSE Continue(t, Raise(after, e.exc, "callback"))
         /\ calls' = IF c.callback = "scan" /\ Len(after) + 2 =< MaxDepth
                     THEN [calls EXCEPT !["scan_folder"] = @ + 1] ELSE calls
  /\ UNCHANGED <<watcher, engines, wapp, whist, fs, indexers, disk, iret, trip, subscriptions, lock, published>>

\* ---------------------------------------------------------- top-level calls
MaxScans == 1           \* scan_folder() calls made by the application

Called(op) == [calls EXCEPT ![op] = @ + 1]

\* manager.subscribe(event_types, callback)
CallSubscribe(t, kindChoices, cbChoices) ==
  /\ Idle(t) /\ calls["subscribe"] < MaxSubscribes
  /\ \E event_types \in kindChoices, callback \in cbChoices :
       stack' = Push(t, SubscribeFrame(event_types, callback, nextId))
  /\ nextId' = nextId + 1
  /\ calls' = Called("subscribe")
  /\ UNCHANGED <<watcher, engines, wapp, whist, fs, indexers, disk, iret, trip, subscriptions, lock, ret, published, delivered>>

\* manager.unsubscribe(subscription_id); id 0 was never issued
CallUnsubscribe(t) ==
  /\ Idle(t) /\ calls["unsubscribe"] < MaxUnsubscribes
  /\ \E id \in 0..(nextId - 1) : stack' = Push(t, UnsubscribeFrame(id))
  /\ calls' = Called("unsubscribe")
  /\ UNCHANGED <<watcher, engines, wapp, whist, fs, indexers, disk, iret, trip, subscriptions, lock, nextId, ret, published, delivered>>

\* manager.scan_folder(path, recursive, extensions, follow_symlinks)
StartScan(t, roots, extChoices, followChoices) ==
  /\ Idle(t)
  /\ \E path \in roots, recursive \in BOOLEAN, extensions \in extChoices,
        follow_symlinks \in followChoices :
       LET args == ScanArgs(path, recursive, extensions, follow_symlinks,
                            calls["scan_folder"] + 1)
           e == ScanEnter(fs, args)
       IN  IF e.exc = NoneVal
           THEN /\ stack' = Push(t, e.frame)
                /\ ret' = [ret EXCEPT ![t] = NoOutcome]
           ELSE /\ stack' = stack
                /\ ret' = [ret EXCEPT ![t] = ScanOutcome("raise", e.exc, args)]
  /\ calls' = [calls EXCEPT !["scan"] = @ + 1, !["scan_folder"] = @ + 1]
  /\ UNCHANGED <<watcher, engines, wapp, whist, fs, indexers, disk, iret, trip, subscriptions, lock, nextId, published, delivered>>

\* A top-level scan_folder call, at most MaxScans of them in a run
CallScan(t, roots, extChoices, followChoices) ==
  /\ calls["scan"] < MaxScans
  /\ StartScan(t, roots, extChoices, followChoices)

\* A top-level scan_folder call by a thread that has not just scanned, one
\* call for each thread at most: two threads scan side by side
CallScanOnce(t, roots, extChoices, followChoices) ==
  /\ ret[t].op # "scan" /\ calls["scan"] < Cardinality(DOMAIN stack)
  /\ StartScan(t, roots, extChoices, followChoices)

\* The callbacks create_event_watcher passes to watcher.watch(): on_moved is
\* not among them, so the handler's _on_moved is None
WiredClosures == {"on_created", "on_modified", "on_deleted"}

\* The closures create_event_watcher hands to the watcher, run by the
\* watcher's thread for a notification about file_path under folder Root:
\* on_created and on_modified probe the file and emit FILE_DISCOVERED /
\* FILE_MODIFIED; on_deleted emits FILE_DELETED with a record built from the
\* path alone, of size 0.
CallNotify(t, kinds, paths) ==
  /\ Idle(t) /\ calls["notify"] < MaxNotifications
  /\ \E op \in kinds, file_path \in paths :
       LET info == GetFileInfo(fs, file_path)
           frame == [op |-> op, pc |-> "return", file_path |-> file_path]
           kind == IF op = "on_created" THEN "FILE_DISCOVERED" ELSE "FILE_MODIFIED"
       IN  IF op \notin WiredClosures
           THEN \* the handler has no callback of this kind: nothing is called
                /\ ret' = [ret EXCEPT ![t] = Outcome(op, "return", NoneVal)]
                /\ UNCHANGED stack
           ELSE IF op = "on_deleted"
           THEN /\ stack' = [stack EXCEPT ![t] =
                     <<frame, EmitFrame(MediaEvent("FILE_DELETED",
                          MediaFile(file_path, 0), Root, NoneVal), 0)>>]
                /\ ret' = [ret EXCEPT ![t] = NoOutcome]
           ELSE IF info.exc = NoneVal
           THEN /\ stack' = [stack EXCEPT ![t] =
                     <<frame, EmitFrame(MediaEvent(kind, info.value, Root,
                                                   NoneVal), 0)>>]
                /\ ret' = [ret EXCEPT ![t] = NoOutcome]
           ELSE Continue(t, Raise(<<frame>>, info.exc, "get_file_info"))
  /\ calls' = Called("notify")
  /\ UNCHANGED <<watcher, engines, wapp, whist, fs, indexers, disk, iret, trip, subscriptions, lock, nextId, published, delivered>>

\* ------------------------------------------------------------- FileIndexer
MaxIndexOps == 3        \* FileIndexer calls made by the application

\* The index path the indexers of the application are constructed with
IndexFile == "/idx/index.json"

\* MediaFile.to_dict (size_mb and the timestamps are not modelled); str(path)
\* of a path is the path's text
ToDict(media_file) ==
  [path |-> media_file.path, name |-> media_file.name,
   extension |-> media_file.extension, size_bytes |-> media_file.size_bytes]

\* _index is a dict: <<[key, info], ...>> in insertion order
IndexKeys(index) == { index[k].key : k \in 1..Len(index) }

\* An assignment that appends without looking for the key
IndexAppend(index, key, info) == Append(index, [key |-> key, info |-> info])

\* self._index[key] = info
IndexSet(index, key, info) ==
  IF key \in IndexKeys(index)
  THEN [k \in 1..Len(index) |->
          IF index[k].key = key THEN [key |-> key, info |-> info] ELSE index[k]]
  ELSE Append(index, [key |-> key, info |-> info])

\* self._index.get(key): <<>> for None, <<info>> for an entry
IndexGet(index, key) ==
  IF \E k \in 1..Len(index) : index[k].key = key
  THEN <<index[CHOOSE k \in 1..Len(index) : index[k].key = key].info>>
  ELSE <<>>

\* FileIndexer.add_file on the index
AddFileTo(index, media_file) ==
  IndexSet(index, media_file.path, ToDict(media_file))

\* for media_file in result.files: self.add_file(media_file)
RECURSIVE AddAll(_, _)
AddAll(index, files) ==
  IF files = <<>> THEN index
  ELSE AddAll(AddFileTo(index, Head(files)), Tail(files))

\* FileIndexer.get_file: the key is the resolved path
GetFile(f, index, path) == IndexGet(index, Resolve(f, path))

\* FileIndexer.get_stats()["file_count"]
StatsFileCount(index) == Len(index)

\* What the file at the index path holds.  kind: "missing" (no such file),
\* "unreadable" (open raises OSError), "malformed" (text that is not JSON),
\* "not_utf8" (bytes that are not UTF-8 text), "array" (a JSON document that
\* is not an object) or "object"; files: <<>> when the object has no "files"
\* member, <<mapping>> when it has one.
\* (An object whose "files" member is not a mapping is not among the
\* documents modelled.)
Doc(kind, file_count, files) ==
  [kind |-> kind, file_count |-> file_count, files |-> files]

\* json.dump of {"updated_at": ..., "file_count": ..., "files": self._index}
JsonDump(index) == Doc("object", Len(index), <<index>>)

\* data.get("files", {}) of a loaded object
FilesOf(data) == IF data.files = <<>> THEN <<>> ELSE data.files[1]

\* An entry left in the index file by an earlier run
OldIndex == <<[key |-> PO, info |-> ToDict(MediaFile(PO, 8))]>>

\* The index files the application can start with, each with what a write to
\* the file meets: "ok", "denied" (open raises OSError, the file is as it
\* was) or "full" (the file is truncated, then the write raises OSError)
InitialDisks ==
  { [content |-> Doc("missing", 0, <<>>), write |-> w] :
       w \in {"ok", "denied", "full"} }
  \cup
  { [content |-> d, write |-> "ok"] :
       d \in { Doc("unreadable", 0, <<>>), Doc("malformed", 0, <<>>),
               Doc("not_utf8", 0, <<>>), Doc("array", 0, <<>>),
               Doc("object", 0, <<>>), JsonDump(OldIndex) } }

NoIndexFile == [content |-> Doc("missing", 0, <<>>), write |-> "ok"]

\* FileIndexer.__init__
NewIndexer(index_path) ==
  [index_path |-> index_path, index |-> <<>>, loaded |-> FALSE,
   fresh |-> TRUE,       \* history: no method was called on the object yet
   latest |-> <<>>,      \* history: key -> the data last loaded or added
   overwrites |-> 0]     \* history: adds that replaced different data

IndexOutcome(op, i, kind, value, saw, before) ==
  [op |-> op, indexer |-> i, kind |-> kind, value |-> value,
   saw |-> saw,          \* history: the kind of index file the call met
   before |-> before]    \* history: _index when the call began

NoTrip == [stage |-> 0, report |-> NoneVal, empty_before |-> FALSE,
           saved |-> FALSE, loaded |-> FALSE]

InitIndexer(index_path, d) ==
  /\ indexers = [i \in {1, 2} |-> NewIndexer(index_path)]
  /\ disk = d
  /\ iret = IndexOutcome(NoneVal, 0, NoneVal, FALSE, NoneVal, <<>>)
  /\ trip = NoTrip

\* A load that keeps the entries in memory and adds those of the file whose
\* keys are new
LoadOutcomeMerging(self, data) ==
  IF self.index_path # NoneVal /\ data.kind = "object"
  THEN [kind |-> "return", value |-> TRUE,
        index |-> self.index \o
                  SelectSeq(IF data.files = <<>> THEN <<>> ELSE data.files[1],
                            LAMBDA e : e.key \notin IndexKeys(self.index)),
        loaded |-> TRUE]
  ELSE [kind |-> IF self.index_path # NoneVal /\ data.kind \in {"not_utf8", "array"}
                 THEN "raise" ELSE "return",
        value |-> FALSE, index |-> self.index, loaded |-> self.loaded]

\* FileIndexer.load: what the call does to the object and how it ends
LoadOutcome(self, data) ==
  LET same == [index |-> self.index, loaded |-> self.loaded]
  IN  CASE self.index_path = NoneVal ->
             [kind |-> "return", value |-> FALSE] @@ same
        [] self.index_path # NoneVal /\ data.kind = "missing" ->
             [kind |-> "return", value |-> FALSE] @@ same
        [] self.index_path # NoneVal /\ data.kind \in {"unreadable", "malformed"} ->
             [kind |-> "return", value |-> FALSE] @@ same
        [] self.index_path # NoneVal /\ data.kind = "not_utf8" ->
             [kind |-> "raise", value |-> FALSE] @@ same
        [] self.index_path # NoneVal /\ data.kind = "array" ->
             [kind |-> "raise", value |-> FALSE] @@ same
        [] self.index_path # NoneVal /\ data.kind = "object" ->
             [kind |-> "return", value |-> TRUE,
              index |-> FilesOf(data), loaded |-> TRUE]

\* The history of the round trip after a call of op on indexer i
TripAfter(op, i, report, result) ==
  CASE op = "add_scan_result" /\ i = 1 ->
         [stage |-> 1, report |-> report,
          empty_before |-> indexers[1].index = <<>>,
          saved |-> FALSE, loaded |-> FALSE]
    [] op = "save" /\ i = 1 /\ trip.stage = 1 ->
         [trip EXCEPT !.stage = 2, !.saved = result]
    [] op = "load" /\ i = 2 /\ trip.stage = 2 /\ indexers[2].fresh ->
         [trip EXCEPT !.stage = 3, !.loaded = result]
    [] OTHER -> NoTrip

LatestOf(index) ==
  [key \in IndexKeys(index) |-> IndexGet(index, key)[1]]

\* key -> the data of the last of the records, for the keys they have, and
\* what was there before for the other keys
LatestAfter(latest, files) ==
  [key \in DOMAIN latest \cup { files[j].path : j \in 1..Len(files) } |->
     IF \E j \in 1..Len(files) : files[j].path = key
     THEN ToDict(files[CHOOSE j \in 1..Len(files) :
                   /\ files[j].path = key
                   /\ \A j2 \in (j + 1)..Len(files) : files[j2].path # key])
     ELSE latest[key]]

Overwrites(self, files) ==
  IF \E j \in 1..Len(files) :
       /\ files[j].path \in DOMAIN self.latest
       /\ self.latest[files[j].path] # ToDict(files[j])
  THEN self.overwrites + 1 ELSE self.overwrites

\* The records the application adds by hand: two states of one file, and a
\* record whose path is the link's own
Records == { MediaFile(PA, 1), MediaFile(PA, 3), MediaFile(PL, 5) }

\* indexer.add_file(media_file)
AddFile(i) ==
  /\ Idle(1) /\ calls["index"] < MaxIndexOps
  /\ \E media_file \in Records :
       /\ indexers' = [indexers EXCEPT ![i] =
            [@ EXCEPT !.index = AddFileTo(@, media_file),
                      !.fresh = FALSE,
                      !.latest = LatestAfter(@, <<media_file>>),
                      !.overwrites = Overwrites(indexers[i], <<media_file>>)]]
       /\ iret' = IndexOutcome("add_file", i, "return", FALSE, NoneVal,
                               indexers[i].index)
  /\ trip' = TripAfter("add_file", i, NoneVal, FALSE)
  /\ calls' = Called("index")
  /\ UNCHANGED <<watcher, engines, wapp, whist, fs, subscriptions, lock, nextId, stack, ret, published,
                 delivered, disk>>

\* indexer.add_scan_result(report), with the report the last scan returned
AddScanResult(i) ==
  /\ Idle(1) /\ calls["index"] < MaxIndexOps
  /\ ret[1].op = "scan" /\ ret[1].kind = "return"
  /\ LET result == ret[1].value
     IN  /\ indexers' = [indexers EXCEPT ![i] =
              [@ EXCEPT !.index = AddAll(@, result.files),
                        !.fresh = FALSE,
                        !.latest = LatestAfter(@, result.files),
                        !.overwrites = Overwrites(indexers[i], result.files)]]
         /\ iret' = IndexOutcome("add_scan_result", i, "return", FALSE, NoneVal,
                                 indexers[i].index)
         /\ trip' = TripAfter("add_scan_result", i, result, FALSE)
  /\ calls' = Called("index")
  /\ UNCHANGED <<watcher, engines, wapp, whist, fs, subscriptions, lock, nextId, stack, ret, published,
                 delivered, disk>>

\* indexer.save()
Save(i) ==
  /\ Idle(1) /\ calls["index"] < MaxIndexOps
  /\ LET self == indexers[i]
         written == self.index_path # NoneVal /\ disk.write = "ok"
     IN  /\ disk' = IF self.index_path = NoneVal \/ disk.write = "denied"
                    THEN disk
                    ELSE IF disk.write = "full"
                    THEN [disk EXCEPT !.content = Doc("malformed", 0, <<>>)]
                    ELSE [disk EXCEPT !.content = JsonDump(self.index)]
         /\ iret' = IndexOutcome("save", i, "return", written, disk.content.kind,
                                 self.index)
         /\ trip' = TripAfter("save", i, NoneVal, written)
  /\ indexers' = [indexers EXCEPT ![i].fresh = FALSE]
  /\ calls' = Called("index")
  /\ UNCHANGED <<watcher, engines, wapp, whist, fs, subscriptions, lock, nextId, stack, ret, published,
                 delivered>>

\* indexer.load()
Load(i) ==
  /\ Idle(1) /\ calls["index"] < MaxIndexOps
  /\ LET self == indexers[i]
         out == LoadOutcome(self, disk.content)
     IN  /\ indexers' = [indexers EXCEPT ![i] =
              [@ EXCEPT !.index = out.index, !.loaded = out.loaded,
                        !.fresh = FALSE,
                        !.latest = LatestOf(out.index)]]
         /\ iret' = IndexOutcome("load", i, out.kind, out.value,
                                 disk.content.kind, self.index)
         /\ trip' = TripAfter("load", i, NoneVal, out.value)
  /\ calls' = Called("index")
  /\ UNCHANGED <<watcher, engines, wapp, whist, fs, subscriptions, lock, nextId, stack, ret, published,
                 delivered, disk>>

\* How a lookup on indexer i ended: arg is the path the call was given
QueryOutcome(op, i, value, arg, before) ==
  [op |-> op, indexer |-> i, kind |-> "return", value |-> value,
   saw |-> NoneVal, before |-> before, arg |-> arg]

\* The infos of the entries, in the order of the dict
RECURSIVE InfosOf(_)
InfosOf(index) ==
  IF index = <<>> THEN <<>> ELSE <<Head(index).info>> \o InfosOf(Tail(index))

\* A lookup that takes only the entries inside the folder or the folder itself
GetFilesInFolderBySegment(f, index, folder) ==
  InfosOf(SelectSeq(index, LAMBDA e : IsRelativeTo(e.key, Resolve(f, folder))))

\* FileIndexer.get_files_in_folder: path.startswith(folder_str)
GetFilesInFolder(f, index, folder) ==
  InfosOf(SelectSeq(index, LAMBDA e : StartsWith(e.key, Resolve(f, folder))))

\* FileIndexer.has_file: the key is the resolved path
HasFile(f, index, path) == Resolve(f, path) \in IndexKeys(index)

\* del self._index[key]
IndexDel(index, key) == SelectSeq(index, LAMBDA e : e.key # key)

\* The paths and folders the application looks up
LookupPaths == {PA, PL, PO}
LookupFolders == {Root, RO, PS}

\* A lookup leaves the object as it was, but for the history
Looked(i) == [indexers EXCEPT ![i].fresh = FALSE]

\* indexer.get_files_in_folder(folder)
CallGetFilesInFolder(i) ==
  /\ Idle(1) /\ calls["index"] < MaxIndexOps
  /\ \E folder \in LookupFolders :
       iret' = QueryOutcome("get_files_in_folder", i,
                            GetFilesInFolder(fs, indexers[i].index, folder),
                            folder, indexers[i].index)
  /\ indexers' = Looked(i)
  /\ trip' = TripAfter("get_files_in_folder", i, NoneVal, FALSE)
  /\ calls' = Called("index")
  /\ UNCHANGED <<watcher, engines, wapp, whist, fs, subscriptions, lock,
                 nextId, stack, ret, published, delivered, disk>>

\* indexer.has_file(path)
CallHasFile(i) ==
  /\ Idle(1) /\ calls["index"] < MaxIndexOps
  /\ \E path \in LookupPaths :
       iret' = QueryOutcome("has_file", i,
                            HasFile(fs, indexers[i].index, path),
                            path, indexers[i].index)
  /\ indexers' = Looked(i)
  /\ trip' = TripAfter("has_file", i, NoneVal, FALSE)
  /\ calls' = Called("index")
  /\ UNCHANGED <<watcher, engines, wapp, whist, fs, subscriptions, lock,
                 nextId, stack, ret, published, delivered, disk>>

\* indexer.get_file(path)
CallGetFile(i) ==
  /\ Idle(1) /\ calls["index"] < MaxIndexOps
  /\ \E path \in LookupPaths :
       iret' = QueryOutcome("get_file", i,
                            GetFile(fs, indexers[i].index, path),
                            path, indexers[i].index)
  /\ indexers' = Looked(i)
  /\ trip' = TripAfter("get_file", i, NoneVal, FALSE)
  /\ calls' = Called("index")
  /\ UNCHANGED <<watcher, engines, wapp, whist, fs, subscriptions, lock,
                 nextId, stack, ret, published, delivered, disk>>

\* indexer.remove_file(path)
RemoveFile(i) ==
  /\ Idle(1) /\ calls["index"] < MaxIndexOps
  /\ \E path \in LookupPaths :
       LET key == Resolve(fs, path)
           found == key \in IndexKeys(indexers[i].index)
       IN  /\ indexers' = [indexers EXCEPT ![i] =
                [@ EXCEPT !.index = IF found THEN IndexDel(@, key) ELSE @,
                          !.fresh = FALSE,
                          !.latest = [k \in DOMAIN @ \ {key} |-> @[k]]]]
           /\ iret' = QueryOutcome("remove_file", i, found, path,
                                   indexers[i].index)
  /\ trip' = TripAfter("remove_file", i, NoneVal, FALSE)
  /\ calls' = Called("index")
  /\ UNCHANGED <<watcher, engines, wapp, whist, fs, subscriptions, lock,
                 nextId, stack, ret, published, delivered, disk>>

\* ------------------------------------------------------------- FileWatcher
\* file_watcher.py.  The watchdog Observer is the external notification
\* engine: start() starts its worker thread, schedule() attaches a handler to
\* the watch of a path, unschedule() detaches the handlers of a watch, stop()
\* tells the worker thread to end and join(timeout) waits for it at most
\* timeout.  The calls of the engine other than join() do not wait.

MaxWatcherCalls == 3    \* watch, unwatch and stop calls made by the application
MaxDispatches == 2      \* notifications the engines dispatch

\* The folders an application asks to watch: two directories, a regular file
\* and a path that does not exist
WatchPaths == {Root, PS, PB, PN}

\* What the on_created callback given to watch() does: return at once, run
\* for a long time, or read watcher.is_watching (which takes the lock)
CallbackKinds == {"quick", "slow", "locks"}

\* The paths whose creation the engine may report
NotifiedPaths == {PA, PB, PC}

\* The thread that calls watch, unwatch and stop, and engine e's worker thread
AppThread == 1
WorkerThread(e) == 1 + e

\* watchdog's ObservedWatch, the value schedule() returns: two watches are
\* the same watch when path and flag are the same
ObservedWatch(path, recursive) == [path |-> path, recursive |-> recursive]

\* The callbacks watch() and the handler take
CallbackNames == {"on_created", "on_modified", "on_deleted", "on_moved"}

\* MediaFileEventHandler(extensions, on_created, ...): id tells the objects
\* apart; given holds the names of the callbacks that are not None, and
\* on_created says what the on_created callback does
MediaFileEventHandler(id, extensions, on_created, given) ==
  [id |-> id, extensions |-> ExtsLower(extensions), on_created |-> on_created,
   given |-> given]

\* A handler that compares the suffix as it is written, without lower()
IsMediaFileAsWritten(handler, path) ==
  LStripDot(Suffix(path)) \in handler.extensions

\* MediaFileEventHandler._is_media_file
IsMediaFile(handler, path) == ExtOf(path) \in handler.extensions

\* Observer(): not started, with no handler attached.  handlers holds the
\* attached handlers with the watch each is attached to; running is what the
\* worker thread is doing ("none": waiting for a notification)
Observer ==
  [alive |-> FALSE, stopped |-> FALSE, handlers |-> {}, running |-> "none"]

\* observer.start()
ObserverStart(o) == [o EXCEPT !.alive = TRUE]

\* observer.schedule(handler, path, recursive)
ObserverSchedule(o, handler, watch) ==
  [o EXCEPT !.handlers = @ \cup {[watch |-> watch, handler |-> handler]}]

\* observer.unschedule(watch)
ObserverUnschedule(o, watch) ==
  [o EXCEPT !.handlers = { a \in @ : a.watch # watch }]

\* observer.stop()
ObserverStop(o) == [o EXCEPT !.stopped = TRUE]

\* Whether observer.join(timeout) can return: once the timeout has passed it
\* does, whether or not the worker thread has ended.  A join without a
\* timeout returns only when the thread has ended:
JoinWithoutTimeout(o) == ~o.alive

JoinReturns(o) == TRUE

\* Whether a watch covers a notified path
Covers(watch, path) ==
  IF watch.recursive THEN IsRelativeTo(path, watch.path) /\ path # watch.path
  ELSE Parent(path) = watch.path

\* self._watches, a dict from folder to watch, as the sequence of its entries
WatchedFolders(watches) == { watches[i].folder : i \in 1..Len(watches) }

WatchesSet(watches, folder, watch) ==
  LET entry == [folder |-> folder, watch |-> watch]
  IN  IF folder \in WatchedFolders(watches)
      THEN [i \in 1..Len(watches) |->
              IF watches[i].folder = folder THEN entry ELSE watches[i]]
      ELSE Append(watches, entry)

WatchesGet(watches, folder) ==
  watches[CHOOSE i \in 1..Len(watches) : watches[i].folder = folder].watch

WatchesPop(watches, folder) == SelectSeq(watches, LAMBDA e : e.folder # folder)

\* FileWatcher.__init__; available is WATCHDOG_AVAILABLE, observer is 0 for
\* None and else the index of the Observer in engines
FileWatcher(available) ==
  [available |-> available, extensions |-> InstanceExtensions,
   observer |-> 0, watches |-> <<>>, lock |-> 0]

\* How a FileWatcher call ended
WatcherOutcome(op, kind, value, path) ==
  [op |-> op, kind |-> kind, value |-> value, path |-> path]

WatcherFrame(op, path, recursive, on_created, given) ==
  [op |-> op, path |-> path, recursive |-> recursive, on_created |-> on_created,
   given |-> given]

NoFrame == WatcherFrame(NoneVal, <<>>, FALSE, NoneVal, {})

InitWatcher(available) ==
  /\ watcher = FileWatcher(available)
  /\ engines = <<>>
  /\ wapp = [pc |-> "idle", frame |-> NoFrame, calls |-> 0, dispatches |-> 0,
             ret |-> WatcherOutcome(NoneVal, NoneVal, NoneVal, <<>>)]
  /\ whist = [nextHandler |-> 1, registered |-> {}, unwatched |-> {},
              fired |-> <<>>, timeouts |-> 0, handled |-> <<>>]

WatcherReturns(op, kind, value, path) ==
  [wapp EXCEPT !.pc = "idle", !.frame = NoFrame,
               !.ret = WatcherOutcome(op, kind, value, path)]

\* watch() without the check that the path is a directory
WatchValidateNoDirCheck(available, f, path) ==
  IF ~available THEN "ImportError"
  ELSE IF ~Exists(f, Resolve(f, path)) THEN "FileNotFoundError"
  ELSE NoneVal

\* watch(), before the lock: the error the call raises, or None
WatchValidate(available, f, path) ==
  IF ~available THEN "ImportError"
  ELSE IF ~Exists(f, Resolve(f, path)) THEN "FileNotFoundError"
  ELSE IF ~IsDir(f, Resolve(f, path)) THEN "NotADirectoryError"
  ELSE NoneVal

\* watcher.watch(path, recursive, on_created): the checks, then on to the lock
WatchCall(paths, callbacks, givens) ==
  /\ wapp.pc = "idle" /\ wapp.calls < MaxWatcherCalls
  /\ \E path \in paths, recursive \in BOOLEAN, on_created \in callbacks,
        given \in givens :
       LET exc == WatchValidate(watcher.available, fs, path)
       IN  IF exc # NoneVal
           THEN wapp' = [WatcherReturns("watch", "raise", exc, path)
                           EXCEPT !.calls = @ + 1]
           ELSE wapp' = [wapp EXCEPT
                           !.pc = "acquire", !.calls = @ + 1,
                           !.frame = WatcherFrame("watch", Resolve(fs, path),
                                                  recursive, on_created,
                                                  given)]
  /\ UNCHANGED <<watcher, engines, whist>>
  /\ UNCHANGED managerVars

\* watcher.unwatch(path)
UnwatchCall(paths) ==
  /\ wapp.pc = "idle" /\ wapp.calls < MaxWatcherCalls
  /\ \E path \in paths :
       wapp' = [wapp EXCEPT
                  !.pc = "acquire", !.calls = @ + 1,
                  !.frame = WatcherFrame("unwatch", Resolve(fs, path), FALSE,
                                         NoneVal, {})]
  /\ UNCHANGED <<watcher, engines, whist>>
  /\ UNCHANGED managerVars

\* watcher.stop(timeout)
StopCall ==
  /\ wapp.pc = "idle" /\ wapp.calls < MaxWatcherCalls
  /\ wapp' = [wapp EXCEPT !.pc = "acquire", !.calls = @ + 1,
                          !.frame = WatcherFrame("stop", <<>>, FALSE, NoneVal,
                                                 {})]
  /\ UNCHANGED <<watcher, engines, whist>>
  /\ UNCHANGED managerVars

\* with self._lock: the lock is not reentrant, the thread waits until it is
\* free
WatcherAcquire ==
  /\ wapp.pc = "acquire" /\ watcher.lock = 0
  /\ watcher' = [watcher EXCEPT !.lock = AppThread]
  /\ wapp' = [wapp EXCEPT !.pc = "locked"]
  /\ UNCHANGED <<engines, whist>>
  /\ UNCHANGED managerVars

\* watch(), inside the lock: the Observer is made and started if there is
\* none, the handler is made and scheduled, the watch stored under the folder
\* and the lock released
WatchLocked ==
  /\ wapp.pc = "locked" /\ wapp.frame.op = "watch"
  /\ LET folder == wapp.frame.path
         started == IF watcher.observer = 0
                    THEN Append(engines, ObserverStart(Observer))
                    ELSE engines
         observer == IF watcher.observer = 0 THEN Len(started)
                     ELSE watcher.observer
         handler == MediaFileEventHandler(whist.nextHandler, watcher.extensions,
                                          wapp.frame.on_created,
                                          wapp.frame.given)
         watch == ObservedWatch(folder, wapp.frame.recursive)
     IN  /\ engines' = [started EXCEPT
                          ![observer] = ObserverSchedule(@, handler, watch)]
         /\ watcher' = [watcher EXCEPT
                          !.observer = observer,
                          !.watches = WatchesSet(@, folder, watch),
                          !.lock = 0]
         /\ whist' = [whist EXCEPT
                        !.nextHandler = @ + 1,
                        !.registered = @ \cup
                          {[id |-> handler.id, folder |-> folder,
                            recursive |-> wapp.frame.recursive]}]
         /\ wapp' = WatcherReturns("watch", "return", NoneVal, folder)
  /\ UNCHANGED managerVars

\* unwatch(), inside the lock
UnwatchLocked ==
  /\ wapp.pc = "locked" /\ wapp.frame.op = "unwatch"
  /\ LET folder == wapp.frame.path
     IN  IF folder \notin WatchedFolders(watcher.watches) \/ watcher.observer = 0
         THEN /\ watcher' = [watcher EXCEPT !.lock = 0]
              /\ wapp' = WatcherReturns("unwatch", "return", FALSE, folder)
              /\ UNCHANGED <<engines, whist>>
         ELSE LET watch == WatchesGet(watcher.watches, folder)
              IN  /\ engines' = [engines EXCEPT ![watcher.observer] =
                                   ObserverUnschedule(@, watch)]
                  /\ watcher' = [watcher EXCEPT
                                   !.watches = WatchesPop(@, folder),
                                   !.lock = 0]
                  /\ whist' = [whist EXCEPT !.unwatched = @ \cup
                                 { r.id : r \in { x \in whist.registered :
                                                    x.folder = folder } }]
                  /\ wapp' = WatcherReturns("unwatch", "return", TRUE, folder)
  /\ UNCHANGED managerVars

\* stop(), inside the lock: with no Observer there is nothing to do; else the
\* Observer is told to stop and the thread goes on to wait for it
StopLocked ==
  /\ wapp.pc = "locked" /\ wapp.frame.op = "stop"
  /\ IF watcher.observer = 0
     THEN /\ watcher' = [watcher EXCEPT !.lock = 0]
          /\ wapp' = WatcherReturns("stop", "return", FALSE, <<>>)
          /\ UNCHANGED engines
     ELSE /\ engines' = [engines EXCEPT ![watcher.observer] = ObserverStop(@)]
          /\ wapp' = [wapp EXCEPT !.pc = "join"]
          /\ UNCHANGED watcher
  /\ UNCHANGED whist
  /\ UNCHANGED managerVars

\* stop(), still inside the lock: join(timeout) returns, the Observer is
\* forgotten, the dict cleared and the lock released.  The value returned to
\* the history is whether the worker thread was still alive.
StopJoined ==
  /\ wapp.pc = "join"
  /\ JoinReturns(engines[watcher.observer])
  /\ LET alive == engines[watcher.observer].alive
     IN  /\ wapp' = WatcherReturns("stop", "return", alive, <<>>)
         /\ whist' = [whist EXCEPT !.timeouts = @ + (IF alive THEN 1 ELSE 0)]
  /\ watcher' = [watcher EXCEPT !.observer = 0, !.watches = <<>>, !.lock = 0]
  /\ UNCHANGED engines
  /\ UNCHANGED managerVars

\* The worker thread of engine e takes the notification that path was created
\* and dispatches it to one attached handler whose watch covers the path:
\* MediaFileEventHandler.on_created drops it unless the extension is wanted,
\* and else invokes the callback
EngineDispatch(e, paths) ==
  /\ engines[e].alive /\ ~engines[e].stopped /\ engines[e].running = "none"
  /\ wapp.dispatches < MaxDispatches
  /\ \E path \in paths, a \in engines[e].handlers :
       /\ Covers(a.watch, path)
       /\ IF IsMediaFile(a.handler, path) /\ "on_created" \in a.handler.given
          THEN /\ engines' = [engines EXCEPT ![e].running =
                                IF a.handler.on_created = "quick" THEN "none"
                                ELSE a.handler.on_created]
               /\ whist' = [whist EXCEPT !.fired =
                              Append(@, [id |-> a.handler.id, path |-> path,
                                         unwatched |->
                                           a.handler.id \in whist.unwatched])]
          ELSE UNCHANGED <<engines, whist>>
  /\ wapp' = [wapp EXCEPT !.dispatches = @ + 1]
  /\ UNCHANGED watcher
  /\ UNCHANGED managerVars

\* A notification of the engine: kind is "created", "modified", "deleted" or
\* "moved"; dest_path is <<>> but for a move
FileSystemEvent(kind, is_directory, src_path, dest_path) ==
  [kind |-> kind, is_directory |-> is_directory, src_path |-> src_path,
   dest_path |-> dest_path]

\* MediaFileEventHandler.on_created / on_modified / on_deleted / on_moved:
\* <<>> when no callback is invoked, else the callback and its arguments
HandlerCall(handler, event) ==
  IF event.kind = "moved"
  THEN IF event.is_directory THEN <<>>
       ELSE IF ~IsMediaFile(handler, event.src_path)
               /\ ~IsMediaFile(handler, event.dest_path) THEN <<>>
       ELSE IF "on_moved" \in handler.given
       THEN <<[callback |-> "on_moved",
               args |-> <<event.src_path, event.dest_path>>]>>
       ELSE <<>>
  ELSE IF event.is_directory \/ ~IsMediaFile(handler, event.src_path) THEN <<>>
       ELSE IF ("on_" \o event.kind) \in handler.given
       THEN <<[callback |-> "on_" \o event.kind, args |-> <<event.src_path>>]>>
       ELSE <<>>

\* The notifications the engine may report under the watched folder: about
\* files or directories named a.mkv, b.txt and s/c.MP4, moved to a.mkv or to
\* b.txt
Notifications ==
  { FileSystemEvent(kind, is_directory, src_path, <<>>) :
      kind \in {"created", "modified", "deleted"}, is_directory \in BOOLEAN,
      src_path \in {PA, PB, PC} }
  \cup
  { FileSystemEvent("moved", is_directory, src_path, dest_path) :
      is_directory \in BOOLEAN, src_path \in {PA, PB, PC},
      dest_path \in {PA, PB} }

\* The worker thread of engine e takes a notification and dispatches it to one
\* attached handler whose watch covers the path; the callbacks return at
\* once.  The history keeps the notification handled last.
EngineNotify(e, events) ==
  /\ engines[e].alive /\ ~engines[e].stopped /\ engines[e].running = "none"
  /\ wapp.dispatches < MaxDispatches
  /\ \E event \in events, a \in engines[e].handlers :
       /\ Covers(a.watch, event.src_path)
       /\ whist' = [whist EXCEPT !.handled =
                      <<[event |-> event, handler |-> a.handler,
                         call |-> HandlerCall(a.handler, event)]>>]
  /\ wapp' = [wapp EXCEPT !.dispatches = @ + 1]
  /\ UNCHANGED <<watcher, engines>>
  /\ UNCHANGED managerVars

\* A long-running callback returns
CallbackReturns(e) ==
  /\ engines[e].running = "slow"
  /\ engines' = [engines EXCEPT ![e].running = "none"]
  /\ UNCHANGED <<watcher, wapp, whist>>
  /\ UNCHANGED managerVars

\* is_watching, called by a callback: the worker thread waits for the lock
IsWatchingAcquire(e) ==
  /\ engines[e].running = "locks" /\ watcher.lock = 0
  /\ watcher' = [watcher EXCEPT !.lock = WorkerThread(e)]
  /\ engines' = [engines EXCEPT ![e].running = "holds"]
  /\ UNCHANGED <<wapp, whist>>
  /\ UNCHANGED managerVars

\* is_watching: the value is read, the lock released and the callback returns
IsWatchingReturns(e) ==
  /\ engines[e].running = "holds"
  /\ watcher' = [watcher EXCEPT !.lock = 0]
  /\ engines' = [engines EXCEPT ![e].running = "none"]
  /\ UNCHANGED <<wapp, whist>>
  /\ UNCHANGED managerVars

\* The worker thread of a stopped engine ends once it is back from a callback
EngineExits(e) ==
  /\ engines[e].alive /\ engines[e].stopped /\ engines[e].running = "none"
  /\ engines' = [engines EXCEPT ![e].alive = FALSE]
  /\ UNCHANGED <<watcher, wapp, whist>>
  /\ UNCHANGED managerVars

\* -------------------------------------------------------------------- Init
\* The state after ExternalMediaManager() was constructed, on file system f,
\* with the given threads
InitManager(f, threads) ==
  /\ fs = f
  /\ subscriptions = <<>>
  /\ lock = 0
  /\ nextId = 1
  /\ stack = [t \in threads |-> <<>>]
  /\ ret = [t \in threads |-> NoOutcome]
  /\ calls = [op \in {"subscribe", "unsubscribe", "scan", "notify",
                       "scan_folder", "index"} |-> 0]
  /\ published = <<>>
  /\ delivered = <<>>

\* The steps inside the calls, by any thread
Step ==
  \/ \E t \in DOMAIN stack : AcquireLock(t)
  \/ \E t \in DOMAIN stack : SubscribeStore(t)
  \/ \E t \in DOMAIN stack : UnsubscribeRemove(t)
  \/ \E t \in DOMAIN stack : ScanStep(t)
  \/ \E t \in DOMAIN stack : ScanComplete(t)
  \/ \E t \in DOMAIN stack : EmitSnapshot(t)
  \/ \E t \in DOMAIN stack : EmitInvoke(t)

\* ---------------------------------------------------------------- the broker
\* One application thread subscribes, unsubscribes, scans and handles watcher
\* notifications, with every kind of callback.
KindChoices == { {"FILE_DISCOVERED", "FILE_DELETED"},
                 {"SCAN_COMPLETED", "FILE_MODIFIED"} }

InitBroker ==
  \E f \in {MakeFS(<<>>, "ok", "ok")} :
    /\ InitManager(f, {1})
    /\ InitIndexer(NoneVal, NoIndexFile)
    /\ InitWatcher(TRUE)

NextBroker ==
  \/ \E t \in DOMAIN stack : CallSubscribe(t, KindChoices, Callbacks)
  \/ \E t \in DOMAIN stack : CallUnsubscribe(t)
  \/ \E t \in DOMAIN stack : CallScan(t, {PS}, {<<>>}, {FALSE})
  \/ \E t \in DOMAIN stack :
       CallNotify(t, {"on_created", "on_modified", "on_deleted", "on_moved"},
                  {PA})
  \/ Step

SpecBroker == InitBroker /\ [][NextBroker]_vars

\* ------------------------------------------------------ concurrent threads
\* Thread 1 is the application, which subscribes and unsubscribes; thread 2 is
\* the watcher's thread, which handles notifications.  Callbacks call back
\* into the manager.
InitConc ==
  \E f \in {MakeFS(<<>>, "ok", "ok")} :
    /\ InitManager(f, Threads)
    /\ InitIndexer(NoneVal, NoIndexFile)
    /\ InitWatcher(TRUE)

NextConc ==
  \/ CallSubscribe(1, {{"FILE_DELETED", "FILE_DISCOVERED"}}, Callbacks)
  \/ CallUnsubscribe(1)
  \/ CallNotify(2, {"on_deleted", "on_created"}, {PA})
  \/ Step

SpecConc == InitConc /\ [][NextConc]_vars

\* --------------------------------------------------------------- the scanner
\* One thread subscribes plain and raising callbacks and scans any of the
\* file systems with any arguments.
ScanRoots == {Root, PB, PN}
ExtensionArgs == { <<>>, <<{}>>, <<{<<".","M","K","V">>}>>,
                   <<{<<"t","x","t">>, <<"m","p","4">>}>> }

InitScan ==
  \E f \in FileSystems :
    /\ InitManager(f, {1})
    /\ InitIndexer(NoneVal, NoIndexFile)
    /\ InitWatcher(TRUE)

NextScan ==
  \/ \E t \in DOMAIN stack :
       CallSubscribe(t, {{"FILE_DISCOVERED", "SCAN_COMPLETED"}}, {"ok", "raise"})
  \/ \E t \in DOMAIN stack : CallScan(t, ScanRoots, ExtensionArgs, BOOLEAN)
  \/ \E t \in DOMAIN stack : AcquireLock(t)
  \/ \E t \in DOMAIN stack : SubscribeStore(t)
  \/ \E t \in DOMAIN stack : ScanStep(t)
  \/ \E t \in DOMAIN stack : ScanComplete(t)
  \/ \E t \in DOMAIN stack : EmitSnapshot(t)
  \/ \E t \in DOMAIN stack : EmitInvoke(t)

SpecScan == InitScan /\ [][NextScan]_vars

\* ------------------------------------------------------ two scans at once
\* Thread 1 subscribes and scans the root folder while thread 2 scans another
\* folder, each once, on the same manager.
InitTwoScans ==
  \E f \in {MakeFS(<<>>, "ok", "ok")} :
    /\ InitManager(f, Threads)
    /\ InitIndexer(NoneVal, NoIndexFile)
    /\ InitWatcher(TRUE)

NextTwoScans ==
  \/ CallSubscribe(1, {{"FILE_DISCOVERED", "SCAN_COMPLETED"}}, {"ok"})
  \/ CallScanOnce(1, {Root}, {<<>>}, {FALSE})
  \/ CallScanOnce(2, {PS}, {<<>>}, {FALSE})
  \/ \E t \in DOMAIN stack : AcquireLock(t)
  \/ \E t \in DOMAIN stack : SubscribeStore(t)
  \/ \E t \in DOMAIN stack : ScanStep(t)
  \/ \E t \in DOMAIN stack : ScanComplete(t)
  \/ \E t \in DOMAIN stack : EmitSnapshot(t)
  \/ \E t \in DOMAIN stack : EmitInvoke(t)

SpecTwoScans == InitTwoScans /\ [][NextTwoScans]_vars

\* ================================================================== claims
\* What the claims speak of, read off the histories.
RECURSIVE SumSizes(_)
SumSizes(files) ==
  IF files = <<>> THEN 0 ELSE Head(files).size_bytes + SumSizes(Tail(files))

\* How many records of files carry path p
CountPath(files, p) == Cardinality({ i \in 1..Len(files) : files[i].path = p })

\* How many FILE_DISCOVERED events scan number id published for path p
CountDiscovered(id, p) ==
  Cardinality({ i \in 1..Len(published) :
                  /\ published[i].scan = id
                  /\ published[i].event.event_type = "FILE_DISCOVERED"
                  /\ published[i].event.media_file.path = p })

\* The scan_folder calls that have returned a report
Returned(t) == ret[t].op = "scan" /\ ret[t].kind = "return"

\* p lies under the root of the scan, at any depth
UnderRoot(p, a) ==
  p # Resolve(fs, a.path) /\ IsRelativeTo(p, Resolve(fs, a.path))

\* p is an entry the traversal visits: a child of the root, or with
\* recursive=true a descendant reached through real directories (the file
\* systems here nest one level deep)
Visited(p, a) ==
  /\ UnderRoot(p, a)
  /\ fs[p].kind # "none"
  /\ \/ Parent(p) = Resolve(fs, a.path)
     \/ a.recursive /\ fs[Parent(p)].kind = "dir"

\* p's extension is in the effective extension set of the call
ExtensionWanted(p, a) ==
  \E e \in (IF a.extensions = <<>> \/ a.extensions = <<{}>>
            THEN InstanceExtensions ELSE a.extensions[1]) :
    LStripDot(Lower(e)) = LStripDot(Lower(Suffix(p)))

\* C1: for every scan_folder call that returns a report, every entry the
\* traversal visits (the root's children, and with recursive=true the whole
\* subtree) that is a regular file, or with follow_symlinks=true a link to
\* one, has a wanted extension, resolves inside the root and whose probe
\* succeeds is in the report's files exactly once, and exactly one
\* FILE_DISCOVERED event was published for it during that scan.
C1_QualifyingFileOnce ==
  \A t \in DOMAIN ret :
    Returned(t) =>
      \A p \in Paths :
        LET a == ret[t].args IN
        ( /\ Visited(p, a)
          /\ IsFile(fs, p)
          /\ (a.follow_symlinks \/ ~IsSymlink(fs, p))
          /\ IsRelativeTo(Resolve(fs, p), Resolve(fs, a.path))
          /\ fs[Resolve(fs, p)].race = "ok"
          /\ ExtensionWanted(p, a) )
        => /\ CountPath(ret[t].value.files, Resolve(fs, p)) = 1
           /\ CountDiscovered(a.id, Resolve(fs, p)) = 1

\* A scan with follow_symlinks=true of a root holding a.mkv and a link to it
\* returned a report with two records of a.mkv
C1_ReportedTwice ==
  /\ Returned(1)
  /\ ret[1].args.follow_symlinks
  /\ fs[PL].kind = "link" /\ fs[PL].target = PA
  /\ CountPath(ret[1].value.files, PA) = 2
  /\ CountDiscovered(ret[1].args.id, PA) = 2

\* The scan_folder frames that are handing an event to the subscribers
Emitting(frame) == frame.op = "scan" /\ frame.pc \in {"in_try", "return"}

\* C2: total_size_bytes is the sum of the size_bytes of the records of files,
\* in every returned report and whenever a scan is handing an event over.
C2_TotalIsSum ==
  /\ \A t \in DOMAIN ret :
       Returned(t) =>
         ret[t].value.total_size_bytes = SumSizes(ret[t].value.files)
  /\ \A t \in DOMAIN stack : \A k \in 1..Len(stack[t]) :
       Emitting(stack[t][k]) =>
         stack[t][k].result.total_size_bytes = SumSizes(stack[t][k].result.files)

\* A subscriber is being handed a FILE_DISCOVERED event by a scan whose report
\* already holds two files and five bytes
C2_Witness ==
  /\ Len(stack[1]) >= 2
  /\ Emitting(stack[1][1])
  /\ stack[1][2].op = "emit" /\ stack[1][2].pc = "invoke"
  /\ stack[1][2].event.event_type = "FILE_DISCOVERED"
  /\ Len(stack[1][1].result.files) = 2
  /\ stack[1][1].result.total_size_bytes = 5
  /\ delivered # <<>>

\* ----------------------------------------------------------------- the index
\* One application thread scans the root without subscribers and then works
\* with two indexers constructed with the same index path: the first is filled
\* and saved, both are loaded.
IndexFileSystems == { MakeFS(<<>>, "ok", "ok"), MakeFS(PA, "ok", "ok"),
                      MakeFS(PO, "ok", "ok") }

InitIndex ==
  \E f \in IndexFileSystems :
    /\ InitManager(f, {1})
    /\ \/ InitIndexer(NoneVal, NoIndexFile)
       \/ \E d \in InitialDisks : InitIndexer(IndexFile, d)
    /\ InitWatcher(TRUE)

NextIndex ==
  \/ \E t \in DOMAIN stack :
       calls["index"] = 0 /\ CallScan(t, {Root}, {<<>>}, BOOLEAN)
  \/ \E t \in DOMAIN stack : AcquireLock(t)
  \/ \E t \in DOMAIN stack : ScanStep(t)
  \/ \E t \in DOMAIN stack : ScanComplete(t)
  \/ \E t \in DOMAIN stack : EmitSnapshot(t)
  \/ AddFile(1)
  \/ AddScanResult(1)
  \/ Save(1)
  \/ \E i \in {1, 2} : Load(i)

SpecIndex == InitIndex /\ [][NextIndex]_vars

\* ---------------------------------------------------------------- the watcher
\* One application thread calls watch, unwatch and stop on one FileWatcher,
\* with and without the watchdog library; the worker threads of its engines
\* dispatch notifications to the handlers.
InitWatch ==
  /\ InitManager(MakeFS(<<>>, "ok", "ok"), {1})
  /\ InitIndexer(NoneVal, NoIndexFile)
  /\ \E available \in BOOLEAN : InitWatcher(available)

NextWatch ==
  \/ WatchCall(WatchPaths, CallbackKinds, {{"on_created"}})
  \/ UnwatchCall({Root, PS})
  \/ StopCall
  \/ WatcherAcquire
  \/ WatchLocked
  \/ UnwatchLocked
  \/ StopLocked
  \/ StopJoined
  \/ \E e \in DOMAIN engines : EngineDispatch(e, NotifiedPaths)
  \/ \E e \in DOMAIN engines : CallbackReturns(e)
  \/ \E e \in DOMAIN engines : IsWatchingAcquire(e)
  \/ \E e \in DOMAIN engines : IsWatchingReturns(e)
  \/ \E e \in DOMAIN engines : EngineExits(e)

SpecWatch == InitWatch /\ [][NextWatch]_vars

\* ------------------------------------------------------------ index lookups
\* One application thread adds records by hand to an indexer that may have
\* loaded an older index file, and looks paths and folders up in it.
InitLookup ==
  \E f \in IndexFileSystems :
    /\ InitManager(f, {1})
    /\ \E d \in {NoIndexFile, [content |-> JsonDump(OldIndex), write |-> "ok"]} :
         InitIndexer(IndexFile, d)
    /\ InitWatcher(TRUE)

NextLookup ==
  \/ AddFile(1)
  \/ Load(1)
  \/ CallGetFilesInFolder(1)
  \/ CallHasFile(1)
  \/ CallGetFile(1)
  \/ RemoveFile(1)

SpecLookup == InitLookup /\ [][NextLookup]_vars

\* ---------------------------------------------------------------- the handler
\* The application watches the root with any set of callbacks, and the engine
\* reports notifications of every kind to the handlers.
InitHandler ==
  /\ InitManager(MakeFS(<<>>, "ok", "ok"), {1})
  /\ InitIndexer(NoneVal, NoIndexFile)
  /\ InitWatcher(TRUE)

NextHandler ==
  \/ WatchCall({Root}, {"quick"}, {CallbackNames, WiredClosures})
  \/ WatcherAcquire
  \/ WatchLocked
  \/ \E e \in DOMAIN engines : EngineNotify(e, Notifications)

SpecHandler == InitHandler /\ [][NextHandler]_vars

\* ------------------------------------------------------------ broker claims
Events == 1..Len(published)

\* The invocations made for event e so far, in order
DeliveredFor(e) ==
  LET d == SelectSeq(delivered, LAMBDA x : x.ev = e)
  IN  [i \in 1..Len(d) |-> [callback |-> d[i].callback, id |-> d[i].id]]

\* The subscriptions that were in the map, in its order, when event e's
\* snapshot was taken and whose kind list holds e's kind
MatchingAt(e) ==
  LET m == SelectSeq(published[e].subs,
             LAMBDA x : published[e].event.event_type \in x.event_types)
  IN  [i \in 1..Len(m) |-> [callback |-> m[i].callback, id |-> m[i].id]]

\* _emit_event is still at work on event e
InDelivery(e) ==
  \E t \in DOMAIN stack : \E k \in 1..Len(stack[t]) :
    stack[t][k].op = "emit" /\ stack[t][k].ev = e

IsPrefix(a, b) == Len(a) =< Len(b) /\ SubSeq(b, 1, Len(a)) = a

\* C3: for every published event the callbacks invoked are those of the
\* subscriptions whose kind list held the event's kind when the snapshot was
\* taken, each once, in the map's insertion order: while the event is being
\* delivered the invocations made are a prefix of that list, afterwards they
\* are the whole list; a subscription without the kind is never invoked.
C3_SnapshotDelivery ==
  \A e \in Events :
    /\ IsPrefix(DeliveredFor(e), MatchingAt(e))
    /\ ~InDelivery(e) => DeliveredFor(e) = MatchingAt(e)
    /\ \A i \in 1..Len(delivered) :
         delivered[i].ev = e =>
           \A k \in 1..Len(published[e].subs) :
             published[e].subs[k].id = delivered[i].id =>
               published[e].event.event_type \in published[e].subs[k].event_types

\* An event with two matching subscriptions and one that does not match has
\* been delivered to the two, and to nobody else
C3_Witness ==
  \E e \in Events :
    /\ ~InDelivery(e)
    /\ Len(published[e].subs) = 2
    /\ Len(MatchingAt(e)) = 1
    /\ Len(DeliveredFor(e)) = 1
    /\ \E e2 \in Events : ~InDelivery(e2) /\ Len(DeliveredFor(e2)) = 2

\* The events during whose delivery a callback raised
RaisedIn(e) ==
  \E i \in 1..Len(delivered) :
    delivered[i].ev = e /\ delivered[i].callback = "raise"

\* C4: when a callback raises during the delivery of an event, every other
\* callback of the snapshot is still invoked, and the operation that emitted
\* the event goes on to its normal end: no call ends with the callback's
\* exception, and a scan returns the report it returns without subscribers.
C4_RaiseIsolated ==
  /\ \A e \in Events :
       (RaisedIn(e) /\ ~InDelivery(e)) =>
         Len(DeliveredFor(e)) = Len(MatchingAt(e))
  /\ \A t \in DOMAIN ret :
       /\ ret[t].kind # "raise"
       /\ Returned(t) =>
            /\ ret[t].value.files = <<MediaFile(PC, 4)>>
            /\ ret[t].value.total_size_bytes = 4
            /\ ret[t].value.errors = <<>>
  /\ \A t \in DOMAIN stack :
       (Idle(t) /\ \E e \in Events : published[e].thread = t /\ RaisedIn(e))
         => ret[t].kind = "return"

\* A scan returned its report although a raising callback was invoked for its
\* FILE_DISCOVERED event, before another callback of the same event
C4_Witness ==
  /\ Returned(1)
  /\ \E e \in Events :
       /\ published[e].scan = ret[1].args.id
       /\ published[e].event.event_type = "FILE_DISCOVERED"
       /\ Len(DeliveredFor(e)) = 2
       /\ DeliveredFor(e)[1].callback = "raise"
       /\ DeliveredFor(e)[2].callback = "ok"

\* Thread t is in a call and its next step can be taken: it is at one of the
\* places a step starts from, and if that place is the entry of a with block
\* the lock is free
CanStep(t) ==
  /\ Busy(t)
  /\ \/ Top(t).pc = "lock" /\ lock = 0
     \/ Top(t).pc = "locked" /\ Top(t).op \in {"subscribe", "unsubscribe", "emit"}
     \/ Top(t).pc = "invoke" /\ Top(t).op = "emit"
          /\ Top(t).i =< Len(Top(t).callbacks_to_invoke)
     \/ Top(t).pc = "loop" /\ Top(t).op = "scan"

\* C5: the subscription lock is held only by a thread that is inside one of
\* the three with blocks, at the map read or write (its innermost frame is
\* subscribe, unsubscribe or _emit_event at the map access), so never while a
\* callback runs; and there is no deadlock: with callbacks that subscribe and
\* unsubscribe from inside a delivery and with a second thread publishing,
\* a thread in a call can take its next step, or waits for the lock while
\* another thread holds it and can take the step that releases it.  A thread
\* at a map read or write holds the lock, so no two threads are at the map
\* together and none sees it partly updated.
C5_LockOnlyAroundMap ==
  /\ \A t \in DOMAIN stack :
       (Busy(t) /\ Top(t).pc = "locked") => lock = t
  /\ lock # 0 =>
       /\ lock \in DOMAIN stack /\ Busy(lock)
       /\ Top(lock).pc = "locked"
       /\ Top(lock).op \in {"subscribe", "unsubscribe", "emit"}
  /\ \A t \in DOMAIN stack :
       (Busy(t) /\ Top(t).pc = "lock" /\ lock # 0) =>
          lock # t /\ CanStep(lock) /\ Top(lock).pc = "locked"
  /\ \A t \in DOMAIN stack :
       Busy(t) => (CanStep(t) \/ (lock \notin {0, t} /\ CanStep(lock)))

\* A callback invoked by the watcher's thread is inside its own subscribe
\* call, waiting for the lock, while the application thread holds the lock
C5_Witness ==
  /\ lock = 1
  /\ Len(stack[2]) >= 3
  /\ stack[2][Len(stack[2]) - 1].op = "callback"
  /\ Top(2).op \in {"subscribe", "unsubscribe"} /\ Top(2).pc = "lock"

\* The ids that were issued, are not in the map and are not about to be stored
GoneIds ==
  { id \in 1..(nextId - 1) :
      /\ id \notin SubIds(subscriptions)
      /\ \A t \in DOMAIN stack : \A k \in 1..Len(stack[t]) :
           stack[t][k].op = "subscribe" => stack[t][k].id # id }

\* C6: unsubscribe(id) returns true exactly when id is in the map; then that
\* entry alone is removed and the others keep their data and order; otherwise
\* the map is unchanged.  An id that has left the map never returns to it, so
\* a second unsubscribe of it returns false.
C6_UnsubscribeStep ==
  \A t \in DOMAIN stack :
    (Busy(t) /\ Top(t).op = "unsubscribe" /\ Top(t).pc = "locked"
             /\ stack'[t] # stack[t]) =>
      LET id == Top(t).id
          found == \E k \in 1..Len(subscriptions) : subscriptions[k].id = id
      IN  /\ (Len(stack[t]) = 1) =>
               /\ ret'[t].op = "unsubscribe"
               /\ ret'[t].value = [id |-> id, result |-> found]
          /\ found =>
               /\ Len(subscriptions') = Len(subscriptions) - 1
               /\ \A k \in 1..Len(subscriptions') : subscriptions'[k].id # id
               /\ IsPrefix(SelectSeq(subscriptions, LAMBDA x : x.id # id),
                           subscriptions')
          /\ ~found => subscriptions' = subscriptions

C6_Unsubscribe ==
  [][ /\ C6_UnsubscribeStep
      /\ \A id \in GoneIds : id \notin SubIds(subscriptions') ]_vars

\* unsubscribe returned true and left the other subscription in the map, and
\* (in another state) returned false for an id that was issued
C6_Witness ==
  /\ ret[1].op = "unsubscribe"
  /\ ret[1].value.result
  /\ Len(subscriptions) = 1
  /\ subscriptions[1].id # ret[1].value.id

\* C7: no replay.  Every invocation made for an event is made for a
\* subscription that was in the map when the event's snapshot was taken: a
\* callback whose subscription is stored later is not invoked with it.
C7_NoReplay ==
  \A i \in 1..Len(delivered) :
    \E k \in 1..Len(published[delivered[i].ev].subs) :
      /\ published[delivered[i].ev].subs[k].id = delivered[i].id
      /\ published[delivered[i].ev].subs[k].callback = delivered[i].callback

\* An event was delivered to the one subscriber of its time; a subscription
\* stored after the event was published is in the map and was not invoked
C7_Witness ==
  \E e \in Events :
    /\ ~InDelivery(e)
    /\ Len(DeliveredFor(e)) >= 1
    /\ \E k \in 1..Len(subscriptions) :
         /\ subscriptions[k].id \notin SubIds(published[e].subs)
         /\ published[e].event.event_type \in subscriptions[k].event_types
         /\ \A i \in 1..Len(delivered) : delivered[i].id # subscriptions[k].id

\* ------------------------------------------------------------- index claims
\* C8: index round trip.  After add_scan_result(report) on the first indexer
\* (empty until then), a save() of it that returned true and a load() of the
\* second, fresh indexer that returned true, the second indexer's stats give
\* file_count = report.file_count and get_file of every path of the report
\* gives an entry with that record's size_bytes.
C8_RoundTrip ==
  (trip.stage = 3 /\ trip.empty_before /\ trip.saved /\ trip.loaded) =>
    LET report == trip.report
    IN  /\ StatsFileCount(indexers[2].index) = Len(report.files)
        /\ \A j \in 1..Len(report.files) :
             LET got == GetFile(fs, indexers[2].index, report.files[j].path)
             IN  got # <<>> /\ got[1].size_bytes = report.files[j].size_bytes

\* The round trip of a report with three records was made
C8_RoundTripMade ==
  /\ trip.stage = 3 /\ trip.empty_before /\ trip.saved /\ trip.loaded
  /\ Len(trip.report.files) = 3

C10_FailSoft ==
  iret.op \in {"load", "save"} =>
    /\ iret.kind = "return"
    /\ indexers[iret.indexer].index_path = NoneVal => iret.value = FALSE
    /\ (iret.op = "load" /\ iret.saw # "object") => iret.value = FALSE
    /\ (iret.op = "save" /\ disk.write # "ok") => iret.value = FALSE
    /\ (iret.op = "load" /\ iret.value = FALSE) =>
         indexers[iret.indexer].index = iret.before

\* load() met an index file holding a JSON document that is not an object
C10_LoadOfNonObject ==
  iret.op = "load" /\ iret.saw = "array" /\ iret.kind = "raise"

\* ------------------------------------------------------- more scan claims
\* The events scan number id published
EventsOfScan(id) == { e \in 1..Len(published) : published[e].scan = id }

\* Scan number id is at work: one of its frames is on a stack
ScanAtWork(id) ==
  \E t \in DOMAIN stack : \E k \in 1..Len(stack[t]) :
    stack[t][k].op = "scan" /\ stack[t][k].args.id = id

\* C11: scan_folder on a root that does not exist ends with
\* FileNotFoundError, on a root that is not a directory with
\* NotADirectoryError; such a call never began its walk (no frame of it is
\* at work, so nothing was probed), published no event and returned no
\* report.  The call fails at once: its outcome is set by the call step.
C11_RootValidated ==
  \A t \in DOMAIN ret :
    (ret[t].op = "scan" /\ ~IsDir(fs, ret[t].args.path)) =>
      /\ ret[t].kind = "raise"
      /\ ret[t].value = IF Exists(fs, ret[t].args.path)
                        THEN "NotADirectoryError" ELSE "FileNotFoundError"
      /\ EventsOfScan(ret[t].args.id) = {}
      /\ ~ScanAtWork(ret[t].args.id)

\* scan_folder of the regular file b.txt ended with NotADirectoryError while
\* a subscriber to FILE_DISCOVERED and SCAN_COMPLETED was registered
C11_Witness ==
  /\ ret[1].op = "scan" /\ ret[1].kind = "raise"
  /\ ret[1].value = "NotADirectoryError"
  /\ ret[1].args.path = PB
  /\ subscriptions # <<>>

\* Entry p is a candidate of the scan with arguments a: the walk visits it and
\* it passes the loop's filters, so the scan probes it
Candidate(p, a) ==
  /\ Visited(p, a)
  /\ IsFile(fs, p)
  /\ (a.follow_symlinks \/ ~IsSymlink(fs, p))
  /\ IsRelativeTo(Resolve(fs, p), Resolve(fs, a.path))
  /\ ExtensionWanted(p, a)

\* The probe of entry p fails
ProbeFails(p) == fs[Resolve(fs, p)].race # "ok"

CountErrors(errors, p) ==
  Cardinality({ i \in 1..Len(errors) : errors[i].path = p })

CountCompleted(id) ==
  Cardinality({ e \in EventsOfScan(id) :
                  published[e].event.event_type = "SCAN_COMPLETED" })

\* C12: partial-failure tolerance.  A scan_folder call that passed the
\* validation of its root returns a report, whatever the probes of its
\* candidates met; the report's errors hold exactly one entry for each
\* candidate whose probe failed, every candidate whose probe succeeded is in
\* files, and the SCAN_COMPLETED event was published.
C12_PartialFailure ==
  \A t \in DOMAIN ret :
    (ret[t].op = "scan" /\ IsDir(fs, ret[t].args.path)) =>
      LET a == ret[t].args IN
      /\ ret[t].kind = "return"
      /\ CountCompleted(a.id) = 1
      /\ \A p \in Paths :
           Candidate(p, a) =>
             IF ProbeFails(p)
             THEN CountErrors(ret[t].value.errors, p) = 1
             ELSE /\ CountPath(ret[t].value.files, Resolve(fs, p)) >= 1
                  /\ CountErrors(ret[t].value.errors, p) = 0

\* A scan ended with the ValueError of a probe: a.mkv stopped being a regular
\* file between the loop's is_file() and get_file_info; no report was
\* returned and no SCAN_COMPLETED event published
C12_ScanAborted ==
  /\ ret[1].op = "scan" /\ ret[1].kind = "raise" /\ ret[1].value = "ValueError"
  /\ fs[PA].race = "notfile"
  /\ CountCompleted(ret[1].args.id) = 0

CountDiscoveredBy(id) ==
  Cardinality({ e \in EventsOfScan(id) :
                  published[e].event.event_type = "FILE_DISCOVERED" })

\* C13: every scan_folder call that passed the validation of its root
\* publishes exactly one SCAN_COMPLETED event, after every FILE_DISCOVERED
\* event of the scan and, delivered, before the call returns; its files_found
\* is the number of records of the returned report and the number of
\* FILE_DISCOVERED events of the scan, and it carries no media_file.
C13_OneScanCompleted ==
  /\ \A t \in DOMAIN ret :
       (ret[t].op = "scan" /\ IsDir(fs, ret[t].args.path)) =>
         LET id == ret[t].args.id IN
         /\ ret[t].kind = "return"
         /\ CountCompleted(id) = 1
         /\ \A e \in EventsOfScan(id) :
              published[e].event.event_type = "SCAN_COMPLETED" =>
                /\ ~InDelivery(e)
                /\ published[e].event.media_file = NoneVal
                /\ published[e].event.files_found = Len(ret[t].value.files)
                /\ published[e].event.files_found = CountDiscoveredBy(id)
  /\ \A e1, e2 \in 1..Len(published) :
       ( /\ published[e1].scan = published[e2].scan /\ published[e1].scan # 0
         /\ published[e1].event.event_type = "SCAN_COMPLETED" ) => e2 =< e1

\* A scan that had published a FILE_DISCOVERED event ended with the
\* ValueError of a later probe, without a SCAN_COMPLETED event
C13_NoScanCompleted ==
  /\ ret[1].op = "scan" /\ ret[1].kind = "raise"
  /\ IsDir(fs, ret[1].args.path)
  /\ CountDiscoveredBy(ret[1].args.id) >= 1
  /\ CountCompleted(ret[1].args.id) = 0

\* The scan_folder frames on the stacks
ScanFrames ==
  { fr \in UNION { { stack[t][k] : k \in 1..Len(stack[t]) } : t \in DOMAIN stack } :
      fr.op = "scan" }

\* Link p points outside root
LinkOutside(p, root) ==
  IsSymlink(fs, p) /\ ~IsRelativeTo(Resolve(fs, p), root)

\* Nothing in the report comes from a link that points outside root: every
\* record's path is inside root, and no record and no error carries the path
\* of such a link or of its target
NothingFromOutside(result, root) ==
  /\ \A i \in 1..Len(result.files) : IsRelativeTo(result.files[i].path, root)
  /\ \A p \in Paths :
       LinkOutside(p, root) =>
         /\ CountPath(result.files, p) = 0
         /\ CountPath(result.files, Resolve(fs, p)) = 0
         /\ CountErrors(result.errors, p) = 0
         /\ CountErrors(result.errors, Resolve(fs, p)) = 0

\* C14: a symbolic link, to a file or to a directory, whose target lies
\* outside the scanned root contributes no record to files and no entry to
\* errors, whatever recursive and follow_symlinks are: in every report, being
\* filled or returned.
C14_OutsideLinkSkipped ==
  /\ \A fr \in ScanFrames : NothingFromOutside(fr.result, fr.folder)
  /\ \A t \in DOMAIN ret :
       Returned(t) =>
         NothingFromOutside(ret[t].value, Resolve(fs, ret[t].args.path))

\* A recursive scan following symbolic links returned a.mkv and s/c.MP4 from
\* a root that holds a link to the media file /ro/x.mkv
C14_Witness ==
  /\ Returned(1)
  /\ ret[1].args.recursive /\ ret[1].args.follow_symlinks
  /\ fs[PL].kind = "link" /\ fs[PL].target = PO
  /\ Len(ret[1].value.files) = 2
  /\ ret[1].value.errors = <<>>

\* C15 as stated: a report returned with recursive=false holds only files
\* that are immediate children of the root, never a file of a subdirectory; a
\* report returned with recursive=true holds every regular file of the whole
\* subtree that has a wanted extension and whose probe succeeded.
C15_AsStated ==
  \A t \in DOMAIN ret :
    Returned(t) =>
      LET a == ret[t].args
          files == ret[t].value.files
      IN  /\ ~a.recursive =>
               \A i \in 1..Len(files) :
                 Parent(files[i].path) = Resolve(fs, a.path)
          /\ a.recursive =>
               \A p \in Paths :
                 ( /\ UnderRoot(p, a) /\ fs[p].kind = "file"
                   /\ fs[p].race = "ok" /\ ExtensionWanted(p, a) )
                 => CountPath(files, p) >= 1

\* C15 (amended): every record of a report returned with recursive=false
\* comes from an immediate child of the root: its path is that of a child or,
\* with follow_symlinks=true, the resolved target inside the root of a child
\* that is a symbolic link (which may be a file of a subdirectory); without
\* follow_symlinks every record is an immediate child.  A report returned
\* with recursive=true holds every regular file of the whole subtree that has
\* a wanted extension and whose probe succeeded.
C15_RecursiveFlag ==
  \A t \in DOMAIN ret :
    Returned(t) =>
      LET a == ret[t].args
          files == ret[t].value.files
          root == Resolve(fs, a.path)
      IN  /\ ~a.recursive =>
               \A i \in 1..Len(files) :
                 \/ Parent(files[i].path) = root
                 \/ /\ a.follow_symlinks
                    /\ \E p \in Paths :
                         /\ Parent(p) = root /\ IsSymlink(fs, p)
                         /\ Resolve(fs, p) = files[i].path
          /\ a.recursive =>
               \A p \in Paths :
                 ( /\ UnderRoot(p, a) /\ fs[p].kind = "file"
                   /\ fs[p].race = "ok" /\ ExtensionWanted(p, a) )
                 => CountPath(files, p) >= 1

\* A scan with recursive=false returned a report holding a.mkv and s/c.MP4, a
\* file of the subdirectory s: the root holds a link to it and links were
\* followed
C15_Witness ==
  /\ Returned(1)
  /\ CountPath(ret[1].value.files, PA) = 1
  /\ ~ret[1].args.recursive /\ ret[1].args.follow_symlinks
  /\ fs[PL].kind = "link" /\ fs[PL].target = PC
  /\ CountPath(ret[1].value.files, PC) = 1

\* ------------------------------------------------------------ watcher claims
\* A FileWatcher call returns or raises in this step
WatcherCallEnds ==
  wapp'.pc = "idle" /\ (wapp.pc # "idle" \/ wapp'.calls # wapp.calls)

\* C16: a watch call made without the notification library, or on a path that
\* does not exist or is not a directory, raises ImportError, FileNotFoundError
\* or NotADirectoryError, and the step in which it fails changes neither the
\* engine handle, the engines nor the dict of watches.
C16_FailedWatchStep ==
  (/\ WatcherCallEnds
   /\ wapp'.ret.op = "watch"
   /\ (~watcher.available \/ ~IsDir(fs, wapp'.ret.path))) =>
     /\ wapp'.ret.kind = "raise"
     /\ wapp'.ret.value =
          IF ~watcher.available THEN "ImportError"
          ELSE IF ~Exists(fs, wapp'.ret.path) THEN "FileNotFoundError"
          ELSE "NotADirectoryError"
     /\ UNCHANGED <<watcher, engines>>

C16_FailedWatchTouchesNothing == [][C16_FailedWatchStep]_vars

\* A watch call has failed on a watcher that has an engine and a watched folder
C16_Witness ==
  /\ wapp.ret.op = "watch" /\ wapp.ret.kind = "raise"
  /\ wapp.pc = "idle"
  /\ watcher.observer # 0 /\ watcher.watches # <<>>

\* The engines whose worker thread is alive
RunningEngines == { e \in DOMAIN engines : engines[e].alive }

\* C17: no engine exists before the first watch call that passes its checks
\* has stored a handler, a watch call made while the watcher holds an engine
\* starts no other, and at every moment at most one engine started by the
\* watcher has a live worker thread.
C17_OneEngineRunning ==
  /\ whist.nextHandler = 1 => (engines = <<>> /\ watcher.observer = 0)
  /\ watcher.observer # 0 => watcher.observer = Len(engines)
  /\ Cardinality(RunningEngines) =< 1

\* stop() gave up waiting for a worker thread that was inside a callback, and
\* a later watch() started a second engine while that thread is still alive
C17_TwoEnginesRunning ==
  /\ Cardinality(RunningEngines) = 2
  /\ \E e \in RunningEngines :
       engines[e].stopped /\ engines[e].running \in {"slow", "locks"}
  /\ wapp.pc = "idle" /\ wapp.ret.op = "watch" /\ wapp.ret.kind = "return"

\* The handlers made by the watch() calls on folder so far
RegisteredFor(folder) == { r.id : r \in { x \in whist.registered : x.folder = folder } }

\* The handlers attached, in the state after the step, to an engine that has
\* not been stopped
AttachedAfter ==
  UNION { { a.handler.id : a \in engines'[e].handlers } :
          e \in { x \in DOMAIN engines' : ~engines'[x].stopped } }

\* C18: unwatch(path) returns False on a path no watch() call was made for, and
\* a call that returns False leaves the engines, the engine handle and the
\* dict of watches as they were; after a call that returns True no handler
\* made by a watch() call on that path is attached to an engine, and the
\* entries and handlers of the other paths are as they were.
C18_UnwatchStep ==
  (WatcherCallEnds /\ wapp'.ret.op = "unwatch") =>
    LET folder == wapp'.ret.path
    IN  /\ RegisteredFor(folder) = {} => wapp'.ret.value = FALSE
        /\ IF wapp'.ret.value = FALSE
           THEN /\ engines' = engines
                /\ watcher'.watches = watcher.watches
                /\ watcher'.observer = watcher.observer
           ELSE /\ AttachedAfter \cap RegisteredFor(folder) = {}
                /\ WatchesPop(watcher'.watches, folder) =
                     WatchesPop(watcher.watches, folder)
                /\ \A e \in DOMAIN engines :
                     { a \in engines'[e].handlers : a.watch.path # folder } =
                     { a \in engines[e].handlers : a.watch.path # folder }

C18_Unwatch == [][C18_UnwatchStep]_vars

\* unwatch() has returned True for a folder, and afterwards the engine invoked
\* the callback of a handler that watch() had made for that folder
C18_FiredAfterUnwatch ==
  /\ \E i \in 1..Len(whist.fired) : whist.fired[i].unwatched
  /\ wapp.ret.op = "unwatch" /\ wapp.ret.value = TRUE

\* Whether the application thread, inside a FileWatcher call, can take its
\* next step: it waits only for the lock and for join(timeout)
AppCanStep ==
  CASE wapp.pc = "acquire" -> watcher.lock = 0
    [] wapp.pc = "join"    -> JoinReturns(engines[watcher.observer])
    [] OTHER               -> TRUE

\* Whether the worker thread of engine e, inside a callback, can take its next
\* step: it waits only for the lock
WorkerCanStep(e) == engines[e].running = "locks" => watcher.lock = 0

\* The thread holding the FileWatcher lock is inside the with block, and can
\* take its next step
HolderCanStep ==
  \/ /\ watcher.lock = AppThread
     /\ wapp.pc \in {"locked", "join"}
     /\ AppCanStep
  \/ \E e \in DOMAIN engines :
       watcher.lock = WorkerThread(e) /\ engines[e].running = "holds"

C20_LockOnlyForMutation ==
  /\ wapp.pc \in {"idle", "acquire"} => watcher.lock # AppThread
  /\ watcher.lock = AppThread => wapp.pc = "locked"

\* stop() holds the lock while it waits in join(timeout) for a worker thread
\* that is inside a callback waiting for that lock
C20_LockHeldAcrossJoin ==
  /\ wapp.pc = "join" /\ wapp.frame.op = "stop" /\ watcher.lock = AppThread
  /\ engines[watcher.observer].alive
  /\ engines[watcher.observer].running = "locks"

\* ------------------------------------------------------- more broker claims
\* The event kind the claim gives each kind of notification
NotifiedType(op) ==
  CASE op = "on_created"  -> "FILE_DISCOVERED"
    [] op = "on_modified" -> "FILE_MODIFIED"
    [] op = "on_deleted"  -> "FILE_DELETED"
    [] op = "on_moved"    -> "FILE_MOVED"

\* The record the claim gives the event of each kind of notification about path
NotifiedRecord(op, path) ==
  IF op = "on_deleted" THEN MediaFile(path, 0) ELSE GetFileInfo(fs, path).value

\* C21: once the watcher made by create_event_watcher has handled a created,
\* modified, deleted or moved notification about the media file a.mkv, an
\* event of kind FILE_DISCOVERED, FILE_MODIFIED, FILE_DELETED or FILE_MOVED
\* has been published for the watched folder; the record of the first two is
\* the probed one, that of a deletion is built from the path with size 0.
C21_FourKindsWired ==
  \A t \in DOMAIN ret :
    (/\ ret[t].op \in {"on_created", "on_modified", "on_deleted", "on_moved"}
     /\ ret[t].kind = "return") =>
       \E e \in 1..Len(published) :
         /\ published[e].event.event_type = NotifiedType(ret[t].op)
         /\ published[e].event.source_path = Root
         /\ ret[t].op # "on_moved" =>
              published[e].event.media_file = NotifiedRecord(ret[t].op, PA)

\* A moved notification has been handled and no FILE_MOVED event published
C21_MovedNotPublished ==
  /\ \E t \in DOMAIN ret : ret[t].op = "on_moved" /\ ret[t].kind = "return"
  /\ \A e \in 1..Len(published) : published[e].event.event_type # "FILE_MOVED"
  /\ published = <<>> /\ subscriptions # <<>>

\* -------------------------------------------------------------- index claims
\* The canonical text of a folder the application names
Canonical(path) == Resolve(fs, path)

\* C22: get_files_in_folder(folder) returns, in the order of the index, the
\* data of exactly the entries whose key begins with the text of the resolved
\* folder path, whether or not the text that follows begins a new path
\* segment.
C22_TextualPrefix ==
  iret.op = "get_files_in_folder" =>
    LET hits == { k \in 1..Len(iret.before) :
                    /\ Len(Canonical(iret.arg)) =< Len(iret.before[k].key)
                    /\ SubSeq(iret.before[k].key, 1, Len(Canonical(iret.arg)))
                         = Canonical(iret.arg) }
    IN  /\ Len(iret.value) = Cardinality(hits)
        /\ \A k \in hits :
             iret.value[Cardinality({ j \in hits : j =< k })] = iret.before[k].info

\* get_files_in_folder(/r) has returned the entry of /ro/x.mkv with that of
\* /r/a.mkv
C22_Witness ==
  /\ iret.op = "get_files_in_folder" /\ iret.arg = Root
  /\ \E k \in 1..Len(iret.value) : iret.value[k].path = PO
  /\ \E k \in 1..Len(iret.value) : iret.value[k].path = PA

\* ------------------------------------------------------ scan claims, continued
\* The report of a scan with arguments a is that of a scan filtering by exts:
\* it names the lowercased, dot-stripped exts as the extensions scanned, and
\* every record is that of a visited entry whose lowercased, dot-stripped
\* extension is among them
FilteredBy(result, a, exts) ==
  /\ result.extensions_scanned = { LStripDot(Lower(e)) : e \in exts }
  /\ \A i \in 1..Len(result.files) :
       \E p \in Paths :
         /\ Visited(p, a)
         /\ Resolve(fs, p) = result.files[i].path
         /\ LStripDot(Lower(Suffix(p))) \in { LStripDot(Lower(e)) : e \in exts }

\* C23 as stated: the effective extension set of a scan_folder call is its
\* extensions argument whenever one is passed, whatever it holds, and the
\* instance set only when none is passed.
C23_AsStated ==
  \A t \in DOMAIN ret :
    Returned(t) =>
      FilteredBy(ret[t].value, ret[t].args,
                 IF ret[t].args.extensions = <<>> THEN InstanceExtensions
                 ELSE ret[t].args.extensions[1])

\* C23: a file is in the report of a scan only if its lowercased, dot-stripped
\* extension is in the effective extension set, lowercased and dot-stripped;
\* the effective set is the extensions argument when a set that is not empty
\* is passed, and the instance set when none or an empty set is passed.
C23_ExtensionFilter ==
  \A t \in DOMAIN ret :
    Returned(t) =>
      FilteredBy(ret[t].value, ret[t].args,
                 IF ret[t].args.extensions \in {<<>>, <<{}>>}
                 THEN InstanceExtensions
                 ELSE ret[t].args.extensions[1])

\* A scan that was passed the empty set has reported a.mkv, whose extension
\* is in the instance set
C23_Witness ==
  /\ Returned(1)
  /\ ret[1].args.extensions = <<{}>>
  /\ CountPath(ret[1].value.files, PA) >= 1

DiscoveredBy(id) ==
  SelectSeq([e \in 1..Len(published) |-> [ev |-> e, pub |-> published[e]]],
            LAMBDA x : x.pub.scan = id
                       /\ x.pub.event.event_type = "FILE_DISCOVERED")

\* Event e has been delivered to every subscriber it matched
FullyDelivered(e) == ~InDelivery(e) /\ DeliveredFor(e) = MatchingAt(e)

\* The FILE_DISCOVERED events of scan id match the records of files one by
\* one, in order; only the event of the last record may be missing (its
\* snapshot is not taken yet) or still in delivery when streaming is true,
\* and none when it is false
Streamed(id, files, streaming) ==
  LET d == DiscoveredBy(id)
  IN  /\ Len(d) =< Len(files)
      /\ Len(files) - Len(d) =< (IF streaming THEN 1 ELSE 0)
      /\ \A k \in 1..Len(d) :
           /\ d[k].pub.event.media_file = files[k]
           /\ (k < Len(files) \/ ~streaming) => FullyDelivered(d[k].ev)

\* C25: while a scan is at work, the FILE_DISCOVERED events it has published
\* are those of the records in its report, in the same order; whenever the
\* scan is at the head of its loop, about to examine the next entry, the
\* event of every record appended so far has been delivered to all the
\* subscribers it matched; the same holds for the report a scan returns.
C25_Streamed ==
  /\ \A fr \in ScanFrames :
       Streamed(fr.args.id, fr.result.files, fr.pc # "loop")
  /\ \A t \in DOMAIN ret :
       Returned(t) => Streamed(ret[t].args.id, ret[t].value.files, FALSE)

\* A scan with entries still to examine has appended one record, and a
\* subscriber has already been called with its event
C25_Witness ==
  \E fr \in ScanFrames :
    /\ fr.pc = "loop" /\ fr.todo # <<>>
    /\ Len(fr.result.files) = 1
    /\ \E e \in EventsOfScan(fr.args.id) : Len(DeliveredFor(e)) >= 1

\* The extension of path, lowercased and without its dot, is in the set the
\* watcher was configured with
Configured(path) ==
  LStripDot(Lower(Suffix(path)))
    \in { LStripDot(Lower(x)) : x \in watcher.extensions }

\* C26: a handler invokes a callback only for a notification that is not
\* about a directory; for a created, modified or deleted notification only
\* when the extension of the path is in the configured set, and then the
\* callback of that kind with the path; a handler that was given a moved
\* callback invokes it, with source and destination, if and only if the
\* notification is not about a directory and the source or the destination
\* has an extension in the configured set.
C26_HandlerFilter ==
  \A i \in 1..Len(whist.handled) :
    LET h == whist.handled[i]
        ev == h.event
    IN  /\ h.call # <<>> => ~ev.is_directory
        /\ (h.call # <<>> /\ ev.kind # "moved") =>
             /\ Configured(ev.src_path)
             /\ h.call[1].callback = "on_" \o ev.kind
             /\ h.call[1].args = <<ev.src_path>>
        /\ (ev.kind = "moved" /\ "on_moved" \in h.handler.given) =>
             /\ h.call # <<>> <=>
                  (~ev.is_directory /\ (Configured(ev.src_path)
                                          \/ Configured(ev.dest_path)))
             /\ h.call # <<>> =>
                  /\ h.call[1].callback = "on_moved"
                  /\ h.call[1].args = <<ev.src_path, ev.dest_path>>

\* The move of s/c.MP4 to b.txt has invoked the moved callback
C26_Witness ==
  \E i \in 1..Len(whist.handled) :
    /\ whist.handled[i].event.kind = "moved"
    /\ ~whist.handled[i].event.is_directory
    /\ whist.handled[i].event.src_path = PC
    /\ whist.handled[i].event.dest_path = PB
    /\ whist.handled[i].call # <<>>

\* ------------------------------------------------------------------- C27
\* The SCAN_COMPLETED events of scan id
CompletedBy(id) ==
  { e \in EventsOfScan(id) : published[e].event.event_type = "SCAN_COMPLETED" }

\* Every subscriber called with a SCAN_COMPLETED event of scan id was called
\* before that with each FILE_DISCOVERED event of the scan that matched it
DiscoveredFirst(id) ==
  \A d2 \in 1..Len(delivered) :
    delivered[d2].ev \in CompletedBy(id) =>
      \A e1 \in EventsOfScan(id) :
        ( /\ published[e1].event.event_type = "FILE_DISCOVERED"
          /\ \E i \in 1..Len(MatchingAt(e1)) :
               MatchingAt(e1)[i].id = delivered[d2].id )
        => \E d1 \in 1..(d2 - 1) :
             delivered[d1].ev = e1 /\ delivered[d1].id = delivered[d2].id

\* The report of a scan with arguments a holds one record for each candidate
\* of that scan and nothing else
OwnFilesOnly(files, a) ==
  \A p \in Paths : CountPath(files, p) = (IF Candidate(p, a) THEN 1 ELSE 0)

\* C27: scans running side by side on one manager do not disturb each other.
\* Every record of a scan's report, at work or returned, lies under the
\* scan's own root, and a returned report holds exactly the candidates of its
\* own scan; the scan's SCAN_COMPLETED event is published once and carries
\* the length of the scan's own files list; and a subscriber called with a
\* scan's SCAN_COMPLETED has been called before with each of that scan's
\* FILE_DISCOVERED events that matched it.
C27_ScansIsolated ==
  /\ \A fr \in ScanFrames :
       /\ \A k \in 1..Len(fr.result.files) :
            IsRelativeTo(fr.result.files[k].path, Resolve(fs, fr.args.path))
       /\ \A e \in CompletedBy(fr.args.id) :
            published[e].event.files_found = Len(fr.result.files)
       /\ DiscoveredFirst(fr.args.id)
  /\ \A t \in DOMAIN ret :
       Returned(t) =>
         /\ OwnFilesOnly(ret[t].value.files, ret[t].args)
         /\ Cardinality(CompletedBy(ret[t].args.id)) = 1
         /\ \A e \in CompletedBy(ret[t].args.id) :
              published[e].event.files_found = Len(ret[t].value.files)
         /\ DiscoveredFirst(ret[t].args.id)

\* Both threads have returned from scans whose events were published in turn:
\* a FILE_DISCOVERED of one scan lies between two events of the other, and
\* the two reports differ in length
C27_Witness ==
  /\ Returned(1) /\ Returned(2)
  /\ Len(ret[1].value.files) # Len(ret[2].value.files)
  /\ Len(ret[2].value.files) > 0
  /\ \E e1, e2, e3 \in 1..Len(published) :
       /\ e1 < e2 /\ e2 < e3
       /\ published[e1].scan = published[e3].scan
       /\ published[e2].scan # published[e1].scan
       /\ published[e2].event.event_type = "FILE_DISCOVERED"
  /\ delivered # <<>>

\* ------------------------------------------------------------------- C28
\* A step that invokes a callback invokes the next one of the list collected
\* when the event's snapshot was taken, whatever the map holds by then
C28_InvokeStep ==
  Len(delivered') = Len(delivered) + 1 =>
    LET d == delivered'[Len(delivered')]
        n == Len(DeliveredFor(d.ev))
    IN  /\ n < Len(MatchingAt(d.ev))
        /\ MatchingAt(d.ev)[n + 1] = [callback |-> d.callback, id |-> d.id]

\* A step that ends the delivery of an event ends it with every callback of
\* the snapshot's list invoked
C28_FinishStep ==
  \A e \in 1..Len(published) :
    (InDelivery(e) /\ ~InDelivery(e)') =>
      Len(DeliveredFor(e))' = Len(MatchingAt(e))

\* C28: the snapshot alone decides who is invoked for an event.  Each
\* invocation is that of the next entry of the list collected under the lock
\* at publish time, and the delivery ends only when the whole list has been
\* invoked: the subscriptions stored or removed since, by a callback of the
\* event or by another thread, change nothing for this event.
C28_SnapshotDecides == [][C28_InvokeStep /\ C28_FinishStep]_vars

\* The first callback of an event unsubscribed the second subscription of the
\* snapshot (the application made no unsubscribe call, and no other callback
\* unsubscribes); after that call had returned, the second callback was
\* invoked with the event although its subscription was gone
C28_Witness ==
  /\ calls["unsubscribe"] = 0
  /\ \E d1, d2 \in 1..Len(delivered) :
       /\ d1 < d2
       /\ delivered[d1].ev = delivered[d2].ev
       /\ delivered[d1].callback = "unsub"
       /\ \A d \in 1..Len(delivered) : delivered[d].callback = "unsub" => d = d1
       /\ delivered[d2].id # delivered[d1].id
       /\ delivered[d2].id \in SubIds(published[delivered[d2].ev].subs)
       /\ delivered[d2].id \notin SubIds(subscriptions)

\* ------------------------------------------------------------------- C29
\* Some record with path p was added to the index the last call met and has
\* not been removed since: an entry of that index carries p as its path
AddedPath(index, p) == \E k \in 1..Len(index) : index[k].info.path = p

\* The entry of the index that carries path p
InfoOfPath(index, p) ==
  index[CHOOSE k \in 1..Len(index) : index[k].info.path = p].info

\* C29: index key consistency.  Every key of the index is a canonical path,
\* and a lookup with the path of a record the index holds finds it:
\* has_file gives true, get_file gives the record's data and remove_file
\* gives true.
C29_KeysCanonical ==
  /\ \A key \in IndexKeys(indexers[1].index) : Resolve(fs, key) = key
  /\ (iret.op \in {"has_file", "get_file", "remove_file"}
        /\ AddedPath(iret.before, iret.arg)) =>
       CASE iret.op = "get_file" ->
              iret.value = <<InfoOfPath(iret.before, iret.arg)>>
         [] OTHER -> iret.value = TRUE

\* The record of a link was added under the link's own path, and has_file of
\* that path answered false
C29_LinkKeyMissed ==
  /\ iret.op = "has_file" /\ iret.arg = PL
  /\ PL \in IndexKeys(iret.before)
  /\ Resolve(fs, PL) # PL
  /\ iret.value = FALSE

\* ------------------------------------------------------------------- C30
\* C30: no two records of a returned report have the same path, whatever
\* recursive and follow_symlinks were; and add_scan_result(report) on an
\* empty index leaves as many entries as the report has records, the number
\* the call returns.
C30_PathsDistinct ==
  /\ \A t \in DOMAIN ret :
       Returned(t) =>
         \A j1, j2 \in 1..Len(ret[t].value.files) :
           j1 # j2 => ret[t].value.files[j1].path # ret[t].value.files[j2].path
  /\ (iret.op = "add_scan_result" /\ iret.before = <<>>) =>
       StatsFileCount(indexers[iret.indexer].index) = Len(trip.report.files)

\* A scan that followed a link to a file of its root returned that file's
\* path in two records; add_scan_result on the empty index, which returns
\* the number of records, left one entry fewer
C30_TwoRecordsOneEntry ==
  /\ iret.op = "add_scan_result" /\ iret.before = <<>>
  /\ ret[1].args.follow_symlinks
  /\ \E j1, j2 \in 1..Len(trip.report.files) :
       j1 < j2 /\ trip.report.files[j1].path = trip.report.files[j2].path
  /\ StatsFileCount(indexers[1].index) = Len(trip.report.files) - 1

\* ------------------------------------------------------------------- C31
\* C31: a load() that returned true leaves the index equal to the files
\* mapping of the index file, empty when the file's object has no such
\* member, so that no entry held before and absent from the file remains;
\* and a save(), whatever it returns, leaves the index as it was.
C31_LoadReplacesSaveKeeps ==
  /\ (iret.op = "load" /\ iret.kind = "return" /\ iret.value = TRUE) =>
       LET index == indexers[iret.indexer].index
       IN  /\ disk.content.kind = "object"
           /\ disk.content.files = <<>> => index = <<>>
           /\ disk.content.files # <<>> => index = disk.content.files[1]
           /\ \A key \in IndexKeys(iret.before) :
                (disk.content.files = <<>>
                   \/ key \notin IndexKeys(disk.content.files[1]))
                => key \notin IndexKeys(index)
  /\ iret.op = "save" => indexers[iret.indexer].index = iret.before

\* A record was added in memory, then load() returned true on a file whose
\* mapping holds another entry only: the added entry is gone and the file's
\* entry is there
C31_Witness ==
  /\ iret.op = "load" /\ iret.kind = "return" /\ iret.value = TRUE
  /\ \E key \in IndexKeys(iret.before) :
       /\ disk.content.files # <<>>
       /\ key \notin IndexKeys(disk.content.files[1])
       /\ key \notin IndexKeys(indexers[iret.indexer].index)
  /\ indexers[iret.indexer].index = OldIndex

====
